---- MODULE Spec2Model ----
(***************************************************************************)
(* Model of the netlink export engine of gobgp (netlinkExportClient):      *)
(* kernel route installation with tracking, withdrawal, dampening and      *)
(* re-evaluation of the RIB after a rule change.                           *)
(*                                                                         *)
(* Strings of the program are modelled as follows: a prefix string is the  *)
(* pair <<rd, prefix>>; the plain prefix "10.1.0.0/24" is <<"", p>> and    *)
(* the VPN NLRI string "rd:10.1.0.0/24" is <<rd, p>>, so that the two      *)
(* renderings of one VPN NLRI are different map keys, as in the program.   *)
(* Timestamps (ExportedAt, LastExport, ...) and log output are left out.   *)
(***************************************************************************)
EXTENDS Integers, Sequences, FiniteSets, TLC

\* ------------------------------------------------------------------ bounds
\* highest position, within one handler run, of a kernel call that may fail
MaxFailIdx == 2
\* number of operations (handler runs and environment steps) in a behaviour
MaxOps == 4
\* longest RIB enumeration handed to reEvaluateAllRoutes
MaxPathList == 2
\* most timers (armed or fired) alive at once
MaxTimers == 2

\* ------------------------------------------------------- program constants
RTPROT_BGP == 186
defaultDampeningInterval == 100
FLAG_ONLINK == 4

\* ------------------------------------------------------------ value domains
Unspecified == "0.0.0.0"
NhA == "192.0.2.1"
NhB == "192.0.2.2"
P1 == "10.1.0.0/24"
P2 == "10.2.0.0/24"
RD1 == "65000:1"
C100 == "65000:100"
C200 == "65000:200"
L1 == <<65000, 1, 100>>
L2 == <<65000, 1, 200>>

\* the kernel's VRF devices: name -> link index and routing table
KernelLinks == [red |-> [Index |-> 7, Table |-> 100]]

UNlri(p) == [vpn |-> FALSE, rd |-> "", pfx |-> p]
VNlri(rd, p) == [vpn |-> TRUE, rd |-> rd, pfx |-> p]

\* nlri.String(): "prefix" for unicast, "rd:prefix" for a labeled VPN NLRI
NlriString(nlri) == <<nlri.rd, nlri.pfx>>

\* LabeledVPNIPAddrPrefix.IPPrefix(): the plain prefix, without the RD
IPPrefix(nlri) == <<"", nlri.pfx>>

\* net.ParseCIDR succeeds on a plain prefix only
ParseCIDROk(prefix) == prefix[1] = "" /\ prefix[2] \in {P1, P2}

MkPath(nlri, wd, nh, comms, lcomms) ==
    [nlri |-> nlri, IsWithdraw |-> wd, nh |-> nh, comms |-> comms, lcomms |-> lcomms]

NoPath == MkPath(UNlri("none"), FALSE, Unspecified, {}, {})

\* the paths the RIB delivers in this model
PathSet ==
    { MkPath(UNlri(P1), FALSE, NhA, {C100}, {}),
      MkPath(UNlri(P1), FALSE, NhB, {}, {L1}),
      MkPath(UNlri(P1), TRUE,  NhA, {C100}, {}),
      MkPath(UNlri(P2), FALSE, NhA, {C200}, {}),
      MkPath(UNlri(P2), FALSE, Unspecified, {}, {}),
      MkPath(VNlri(RD1, P1), FALSE, NhB, {C100}, {}),
      MkPath(VNlri(RD1, P1), TRUE,  NhB, {C100}, {}) }

MkRule(name, comms, lcomms, vrf, tbl, metric, validate) ==
    [Name |-> name, Communities |-> comms, LargeCommunities |-> lcomms,
     VrfName |-> vrf, TableId |-> tbl, Metric |-> metric, ValidateNexthop |-> validate]

NoRule == MkRule("none", {}, {}, "", 0, 0, FALSE)

\* the rule lists a configuration (re)load may install
RuleLists ==
    { << >>,
      << MkRule("g", {}, {}, "", 0, 20, TRUE),
         MkRule("r", {C100}, {}, "red", 100, 20, FALSE) >>,
      << MkRule("g", {}, {}, "", 0, 50, TRUE) >>,
      << MkRule("g", {C200}, {L1}, "", 100, 20, FALSE) >> }

\* the VRF sections of the daemon configuration (bgpConfig.Vrfs)
MkVrf(name, rd, enabled, linuxVrf, tbl, metric, validate, comms, lcomms) ==
    [Name |-> name, Rd |-> rd, Enabled |-> enabled, LinuxVrf |-> linuxVrf,
     LinuxTableId |-> tbl, Metric |-> metric, ValidateNexthop |-> validate,
     CommunityList |-> comms, LargeCommunityList |-> lcomms]

VrfConfigs ==
    { << MkVrf("red", RD1, TRUE, "", 0, 50, "false", {}, {}) >>,
      << MkVrf("red", RD1, TRUE, "red", 100, 50, "nil", {C200}, {}) >>,
      << MkVrf("red", RD1, FALSE, "", 0, 0, "nil", {}, {}) >> }

\* ---------------------------------------------------------------- variables
VARIABLES
    rules,              \* e.rules
    exported,           \* e.exported: vrf -> prefix -> exportedRouteInfo
    rdToVrf,            \* e.rdToVrf
    vrfRules,           \* e.vrfRules
    dampeningInterval,  \* e.dampeningInterval (ms)
    routeProtocol,      \* e.routeProtocol
    pendingUpdates,     \* e.pendingUpdates: prefix -> dampenEntry
    stats,              \* e.stats
    timers,             \* the time.AfterFunc timers that are armed or have fired
    kernel,             \* the kernel's routes carrying the engine's protocol
    nhRoutes,           \* what RouteGet(nexthop) returns: the tables of the routes
    cfg,                \* the arguments newNetlinkExportClient was called with
    last,               \* the operation that returned last
    burst,              \* per prefix, the updates scheduled since the entry was created
    nOps,               \* the number of operations so far
    advertisedPaths,    \* n.advertisedPaths of the import engine: vrf -> prefix -> path
    importStats,        \* n.stats of the import engine
    rib,                \* the RIB's paths that came from the import engine
    ifAddrs,            \* the addresses configured on the host's interfaces
    importCfg,          \* what runImport reads of the server: bgpConfig and globalRib.Vrfs
    delivered,          \* per prefix, the path that scheduleUpdate was called with last
    shutdown,           \* e.stopCh and n.dead are closed; the position of the import loop;
                        \* the runtime has aborted the process
    conc                \* the goroutines: for each its position and its locals; the locks

vars == << rules, exported, rdToVrf, vrfRules, dampeningInterval, routeProtocol,
           pendingUpdates, stats, timers, kernel, nhRoutes, cfg, last, burst, nOps,
           advertisedPaths, importStats, rib, ifAddrs, importCfg, delivered,
           shutdown, conc >>

\* the state of the import engine and of what it reads and writes
importVars == << advertisedPaths, importStats, rib, ifAddrs, importCfg >>

\* ------------------------------------------------------------ map helpers
EmptyMap == [x \in {} |-> FALSE]
Has(m, k) == k \in DOMAIN m
Put(m, k, v) == [x \in (DOMAIN m) \cup {k} |-> IF x = k THEN v ELSE m[x]]
Del(m, k) == [x \in (DOMAIN m) \ {k} |-> m[x]]

\* ------------------------------------------------- the engine state record
\* The engine's functions are written as operators on a record st: the frame
\* of the goroutine that runs the function (its position pc, its arguments
\* and locals) together with the fields of the engine and of the kernel that
\* it reads and writes. One operator is one section of a function between
\* two points at which other goroutines can run: a locked section, or one
\* call of the kernel adapter. st.calls are the kernel adapter calls of the
\* operation so far, st.err the error of the call or function that returned
\* last ("" for nil).
NoErr == ""

NoRoute == [Dst |-> <<"", "none">>, Gw |-> Unspecified, Table |-> 0, Priority |-> 0,
            Protocol |-> 0, Flags |-> 0, LinkIndex |-> 0]

\* e.mu as the running operation holds it: "" when not held, "R" after
\* RLock, "W" after Lock
Lock(st) == [st EXCEPT !.mu = "W"]
Unlock(st) == [st EXCEPT !.mu = ""]
RLock(st) == [st EXCEPT !.mu = "R"]
RUnlock(st) == [st EXCEPT !.mu = ""]

\* a call of the kernel adapter, logged with its route argument and with the
\* mode in which the caller holds e.mu while the call is in progress
Call(st, op, arg, ok) ==
    [st EXCEPT !.calls = Append(@, [op |-> op, ok |-> ok, mu |-> st.mu,
                                     route |-> IF op \in {"RouteReplace", "RouteDel"}
                                               THEN arg ELSE NoRoute])]

\* fail is the set of positions, in the operation's sequence of kernel calls,
\* at which the kernel adapter returns an error
KOk(st, fail) == (Len(st.calls) + 1) \notin fail

\* a counter of e.stats is incremented; st.d counts the increments of the operation
Bump(st, counter) == [st EXCEPT !.stats[counter] = @ + 1, !.d[counter] = @ + 1]

\* ------------------------------------------------------- the kernel adapter
\* a route replaces the route of the same table, destination and priority
SameKey(a, b) == a.Table = b.Table /\ a.Dst = b.Dst /\ a.Priority = b.Priority

\* client.RouteReplace(route)
RouteReplace(st, route, fail) ==
    LET ok == KOk(st, fail)
        s1 == Call(st, "RouteReplace", route, ok)
    IN  IF ok
        THEN [s1 EXCEPT !.kernel = {x \in st.kernel : ~SameKey(x, route)} \cup {route},
                        !.err = NoErr]
        ELSE [s1 EXCEPT !.err = "RouteReplace failed"]

\* client.RouteDel(route): the kernel answers ESRCH when it has no such route
RouteDel(st, route, fail) ==
    LET ok == KOk(st, fail) /\ route \in st.kernel
        s1 == Call(st, "RouteDel", route, ok)
    IN  IF ok
        THEN [s1 EXCEPT !.kernel = st.kernel \ {route}, !.err = NoErr]
        ELSE [s1 EXCEPT !.err = "RouteDel failed"]

\* client.LinkByName(name)
LinkByName(st, name, fail) ==
    LET ok == KOk(st, fail) /\ name \in DOMAIN KernelLinks
        s1 == Call(st, "LinkByName", name, ok)
    IN  IF ok THEN [s1 EXCEPT !.err = NoErr] ELSE [s1 EXCEPT !.err = "link not found"]

\* client.RouteGet(nh): the tables of the routes returned, {} on error
RouteGet(st, nh, fail) ==
    LET ok == KOk(st, fail)
        s1 == Call(st, "RouteGet", nh, ok)
    IN  IF ok THEN [s1 EXCEPT !.err = NoErr, !.got = st.nhRoutes[nh]]
        ELSE [s1 EXCEPT !.err = "RouteGet failed", !.got = {}]

\* ------------------------------------------------------------ matchesRule
\* fmt.Sprintf("%d:%d:%d", lc.ASN, lc.LocalData1, lc.LocalData2), the key of
\* a large community in the lookup set
LcKey(lc) == << lc[1], ":", lc[2], ":", lc[3] >>

\* a match that gives up when the rule's standard communities did not match
matchesRule_StandardFirst(path, rule) ==
    IF rule.Communities = {} /\ rule.LargeCommunities = {}
    THEN TRUE
    ELSE IF rule.Communities # {}
         THEN \E ruleComm \in rule.Communities : ruleComm \in path.comms
         ELSE LET pathLargeCommSet == {LcKey(lc) : lc \in path.lcomms}
              IN  \E ruleLc \in rule.LargeCommunities : LcKey(ruleLc) \in pathLargeCommSet

matchesRule(path, rule) ==
    IF rule.Communities = {} /\ rule.LargeCommunities = {}
    THEN TRUE
    ELSE LET pathCommSet == path.comms
             pathLargeCommSet == {LcKey(lc) : lc \in path.lcomms}
         IN  \/ /\ rule.Communities # {}
                /\ \E ruleComm \in rule.Communities : ruleComm \in pathCommSet
             \/ /\ rule.LargeCommunities # {}
                /\ \E ruleLc \in rule.LargeCommunities : LcKey(ruleLc) \in pathLargeCommSet

\* matchesVrfExportFilters
matchesVrfExportFilters(path, vrfExport) ==
    IF vrfExport.CommunityList = {} /\ vrfExport.LargeCommunityList = {}
    THEN TRUE
    ELSE LET pathCommSet == path.comms
             pathLargeComms == {LcKey(lc) : lc \in path.lcomms}
         IN  \/ \E ruleComm \in vrfExport.CommunityList : ruleComm \in pathCommSet
             \/ \E ruleLComm \in vrfExport.LargeCommunityList : LcKey(ruleLComm) \in pathLargeComms

\* the oracle of one kernel call: the call the operation makes next fails
Oracle(st, ok) == IF ok THEN {} ELSE {Len(st.calls) + 1}

\* ------------------------------------------------------ isNexthopReachable
\* lines 540-542: the attempt is counted
isNexthopReachableCount(st) ==
    [Bump(st, "NexthopValidation") EXCEPT !.pc = "isNexthopReachable"]

\* a validation that accepts a route to the nexthop in any table
isNexthopReachable_AnyTable(st, ok) ==
    LET s1 == RouteGet(st, st.path.nh, Oracle(st, ok))
    IN  IF s1.err # NoErr \/ s1.got = {}
        THEN [s1 EXCEPT !.pc = "isNexthopReachableFailed"]
        ELSE [s1 EXCEPT !.err = NoErr, !.pc = "exportCheckTracked"]

\* lines 545-566: RouteGet and the decision; unreachable when the call fails,
\* returns no route, or (table-id > 0) no route of the rule's table
isNexthopReachable(st, ok) ==
    LET s1 == RouteGet(st, st.path.nh, Oracle(st, ok))
        tableId == st.rule.TableId
    IN  IF s1.err # NoErr \/ s1.got = {}
        THEN [s1 EXCEPT !.pc = "isNexthopReachableFailed"]
        ELSE IF tableId > 0
             THEN IF tableId \in s1.got
                  THEN [s1 EXCEPT !.err = NoErr, !.pc = "exportCheckTracked"]
                  ELSE [s1 EXCEPT !.pc = "isNexthopReachableFailed"]
             ELSE [s1 EXCEPT !.err = NoErr, !.pc = "exportCheckTracked"]

\* lines 547-549 and 561-563: the failure is counted; exportRoute returns the
\* error (lines 604-610)
isNexthopReachableFailed(st) ==
    [Bump(st, "NexthopFailed") EXCEPT !.err = "nexthop not reachable", !.pc = "exportReturn"]

\* ------------------------------------------------------------- exportRoute
\* the plain prefix under which exportRoute and withdrawRoute track a path
PlainPrefix(path) ==
    IF path.nlri.vpn THEN IPPrefix(path.nlri) ELSE NlriString(path.nlri)

\* a comparison that reads the metric of the tracked route against the table
\* of the rule
SameParams_TableForMetric(existingRoute, rule, nexthopIP) ==
    /\ existingRoute.Table = rule.TableId
    /\ existingRoute.Priority = rule.TableId
    /\ existingRoute.Gw = nexthopIP

\* the (table, metric, gateway) comparison of the idempotency check
SameParams(existingRoute, rule, nexthopIP) ==
    /\ existingRoute.Table = rule.TableId
    /\ existingRoute.Priority = rule.Metric
    /\ existingRoute.Gw = nexthopIP

Tracked(st, vrf, prefix) == Has(st.exported, vrf) /\ Has(st.exported[vrf], prefix)

\* delete(m[vrf], prefix) of Go: nothing happens when m has no map for vrf
DeleteEntry(m, vrf, prefix) ==
    IF Has(m, vrf) THEN Put(m, vrf, Del(m[vrf], prefix)) ELSE m

\* the same, followed by "if len(m[vrf]) == 0 { delete(m, vrf) }"
DeleteEntryAndVrf(m, vrf, prefix) ==
    IF Has(m, vrf)
    THEN IF DOMAIN Del(m[vrf], prefix) = {} THEN Del(m, vrf)
         ELSE Put(m, vrf, Del(m[vrf], prefix))
    ELSE m

\* an export that counts a missing nexthop as a failed nexthop validation
exportRoute_CountsMissing(st) ==
    LET s0 == [st EXCEPT !.hit = FALSE, !.branch = "none", !.old = NoRoute,
                         !.oldDeleted = FALSE, !.route = NoRoute, !.got = {}]
    IN  IF st.path.nh = Unspecified
        THEN [Bump(Bump(s0, "NexthopValidation"), "NexthopFailed")
                 EXCEPT !.err = "no valid nexthop", !.pc = "exportReturn"]
        ELSE IF st.rule.ValidateNexthop
             THEN [s0 EXCEPT !.pc = "isNexthopReachableCount"]
             ELSE [s0 EXCEPT !.pc = "exportCheckTracked"]

\* lines 571-615: the prefix and the nexthop of the path; nothing of the
\* engine is read. A path without nexthop is refused here.
exportRoute(st) ==
    LET s0 == [st EXCEPT !.hit = FALSE, !.branch = "none", !.old = NoRoute,
                         !.oldDeleted = FALSE, !.route = NoRoute, !.got = {}]
    IN  IF st.path.nh = Unspecified
        THEN [s0 EXCEPT !.err = "no valid nexthop", !.pc = "exportReturn"]
        ELSE IF st.rule.ValidateNexthop
             THEN [s0 EXCEPT !.pc = "isNexthopReachableCount"]
             ELSE [s0 EXCEPT !.pc = "exportCheckTracked"]

\* lines 617-663: the idempotency check under the read lock. An entry of the
\* same rule with the same parameters: exportRoute returns nil (st.hit); with
\* other parameters: the tracked route is remembered and the lock released
exportCheckTracked(st) ==
    LET s0 == RLock(st)
        prefix == PlainPrefix(st.path)
    IN  IF Tracked(s0, st.rule.VrfName, prefix)
           /\ s0.exported[st.rule.VrfName][prefix].RuleName = st.rule.Name
        THEN LET existingRoute == s0.exported[st.rule.VrfName][prefix].Route
             IN  IF SameParams(existingRoute, st.rule, st.path.nh)
                 THEN [RUnlock(s0) EXCEPT !.hit = TRUE, !.branch = "same",
                                          !.err = NoErr, !.pc = "exportReturn"]
                 ELSE [RUnlock(s0) EXCEPT !.hit = FALSE, !.branch = "changed",
                                          !.old = existingRoute, !.pc = "exportDeleteOld"]
        ELSE [RUnlock(s0) EXCEPT !.hit = FALSE, !.branch = "new", !.pc = "exportBuildRoute"]

\* a parameter change that does not delete the old route
exportDeleteOld_NoDelete(st, ok) ==
    [st EXCEPT !.oldDeleted = FALSE, !.pc = "exportUntrackOld"]

\* lines 639-644: RouteDel of the old route; a failure is only logged
exportDeleteOld(st, ok) ==
    LET s1 == RouteDel(st, st.old, Oracle(st, ok))
    IN  [s1 EXCEPT !.oldDeleted = (s1.err = NoErr), !.pc = "exportUntrackOld"]

\* lines 652-654: the tracking entry is deleted under the write lock
exportUntrackOld(st) ==
    LET s0 == Lock(st)
    IN  [Unlock(s0) EXCEPT
            !.exported = DeleteEntry(@, st.rule.VrfName, PlainPrefix(st.path)),
            !.pc = "exportBuildRoute"]

\* lines 666-707 without LinkByName: the prefix is parsed and the route built
exportBuildRoute(st) ==
    LET prefix == PlainPrefix(st.path)
        base == [Dst |-> prefix, Gw |-> st.path.nh, Table |-> st.rule.TableId,
                 Priority |-> st.rule.Metric, Protocol |-> st.proto, Flags |-> 0,
                 LinkIndex |-> 0]
    IN  IF ~ParseCIDROk(prefix)
        THEN [st EXCEPT !.err = "failed to parse CIDR", !.pc = "exportReturn"]
        ELSE IF ~st.rule.ValidateNexthop
             THEN [st EXCEPT !.route = [base EXCEPT !.Flags = FLAG_ONLINK],
                             !.pc = IF st.rule.VrfName # "" THEN "exportLinkByName"
                                    ELSE "exportInstall"]
             ELSE [st EXCEPT !.route = base, !.pc = "exportInstall"]

\* lines 690-699: the link index of the VRF device; a failure is only logged
exportLinkByName(st, ok) ==
    LET s1 == LinkByName(st, st.rule.VrfName, Oracle(st, ok))
    IN  IF s1.err = NoErr
        THEN [s1 EXCEPT !.route.LinkIndex = KernelLinks[st.rule.VrfName].Index,
                        !.pc = "exportInstall"]
        ELSE [s1 EXCEPT !.pc = "exportInstall"]

\* line 710: RouteReplace
exportInstall(st, ok) ==
    LET s1 == RouteReplace(st, st.route, Oracle(st, ok))
    IN  IF s1.err # NoErr
        THEN [s1 EXCEPT !.pc = "exportInstallFailed"]
        ELSE [s1 EXCEPT !.pc = "exportTrack"]

\* lines 712-726: the error is counted and returned
exportInstallFailed(st) ==
    [Bump(st, "Errors") EXCEPT !.err = "failed to add route", !.pc = "exportReturn"]

\* a tracking step that leaves an entry already tracked for the prefix as it is
exportTrack_KeepEntry(st) ==
    LET vrf == st.rule.VrfName
        prefix == PlainPrefix(st.path)
        inner == IF Has(st.exported, vrf) THEN st.exported[vrf] ELSE EmptyMap
    IN  IF Has(inner, prefix) THEN [st EXCEPT !.pc = "exportCount"]
        ELSE [st EXCEPT !.exported = Put(@, vrf, Put(inner, prefix,
                                         [Route |-> st.route, RuleName |-> st.rule.Name])),
                        !.pc = "exportCount"]

\* lines 729-738: the route is entered into e.exported under the write lock
exportTrack(st) ==
    LET s0 == Lock(st)
        vrf == st.rule.VrfName
        prefix == PlainPrefix(st.path)
        inner == IF Has(s0.exported, vrf) THEN s0.exported[vrf] ELSE EmptyMap
    IN  [Unlock(s0) EXCEPT !.exported = Put(@, vrf, Put(inner, prefix,
                                            [Route |-> st.route, RuleName |-> st.rule.Name])),
                           !.pc = "exportCount"]

\* lines 740-754: the export is counted; exportRoute returns nil
exportCount(st) ==
    [Bump(st, "Exported") EXCEPT !.err = NoErr, !.pc = "exportReturn"]

\* exportRoute has returned to its caller: lines 958 (processUpdate), 1017
\* (processVrfExport) and 415 (reEvaluateAllRoutes) drop the result. st.site
\* names the call site, "" for a call from outside; st.exports notes the call.
exportReturn(st) ==
    IF st.site = "" THEN [st EXCEPT !.pc = "done"]
    ELSE [st EXCEPT !.exports = @ \cup {[vpn |-> st.path.nlri.vpn, site |-> st.site,
                                         rule |-> st.rule]},
                    !.anyErr = @ \/ (st.err # NoErr),
                    !.pc = CASE st.site = "processUpdate" -> "processUpdateRules"
                             [] st.site = "reEvaluateAllRoutes" -> "reEvalRules"
                             [] OTHER -> "done"]

\* ----------------------------------------------------------- withdrawRoute
\* lines 758-789: the tracked route is looked up under the read lock; an
\* untracked prefix returns nil
withdrawRoute(st) ==
    LET s0 == RLock(st)
        prefix == PlainPrefix(st.path)
    IN  IF ~Tracked(s0, st.vrf, prefix)
        THEN [RUnlock(s0) EXCEPT !.err = NoErr, !.pc = "withdrawReturn"]
        ELSE [RUnlock(s0) EXCEPT !.route = s0.exported[st.vrf][prefix].Route,
                                 !.pc = "withdrawRouteDel"]

\* line 793: RouteDel of the tracked route
withdrawRouteDel(st, ok) ==
    LET s1 == RouteDel(st, st.route, Oracle(st, ok))
    IN  IF s1.err # NoErr
        THEN [s1 EXCEPT !.pc = "withdrawRouteFailed"]
        ELSE [s1 EXCEPT !.pc = "withdrawRouteUntrack"]

\* lines 794-806: the error is counted and returned; the entry stays
withdrawRouteFailed(st) ==
    [Bump(st, "Errors") EXCEPT !.err = "failed to delete route", !.pc = "withdrawReturn"]

\* lines 809-814: the entry, and the VRF's map when it is empty, are deleted
withdrawRouteUntrack(st) ==
    LET s0 == Lock(st)
    IN  [Unlock(s0) EXCEPT !.exported = DeleteEntryAndVrf(@, st.vrf, PlainPrefix(st.path)),
                           !.pc = "withdrawRouteCount"]

\* lines 816-821: the withdrawal is counted; withdrawRoute returns nil
withdrawRouteCount(st) ==
    [Bump(st, "Withdrawn") EXCEPT !.err = NoErr, !.pc = "withdrawReturn"]

\* withdrawRoute has returned: line 922 of processUpdate drops the result;
\* st.wd notes the call and whether it returned nil
withdrawReturn(st) ==
    [st EXCEPT !.wd = @ \cup {[vrf |-> st.vrf, ok |-> (st.err = NoErr)]},
               !.pc = IF st.op = "withdrawRoute" THEN "done" ELSE "processUpdateVrfs"]

\* --------------------------------------------------------- processVrfExport
VrfExportName == [red |-> "red-vrf-export", blue |-> "blue-vrf-export"]

\* the export rule synthesized from a VRF export configuration; the variant
\* targets the VRF of the BGP configuration instead of the Linux VRF
VrfExportRule_BgpVrf(vrfName, vrfExport) ==
    MkRule(VrfExportName[vrfName], {}, {}, vrfName, vrfExport.LinuxTableId,
           vrfExport.Metric, vrfExport.ValidateNexthop)

VrfExportRule(vrfName, vrfExport) ==
    MkRule(VrfExportName[vrfName], {}, {}, vrfExport.LinuxVrf, vrfExport.LinuxTableId,
           vrfExport.Metric, vrfExport.ValidateNexthop)

\* lines 964-1017: rdToVrf and vrfRules are read under the read lock
\* (982-991), then the filters are applied and exportRoute is entered
processVrfExport(st) ==
    LET rd == st.path.nlri.rd
        s0 == RUnlock(RLock(st))
    IN  IF ~Has(st.rdToVrf, rd) THEN [s0 EXCEPT !.pc = "done"]
        ELSE LET vrfName == st.rdToVrf[rd]
             IN  IF ~Has(st.vrfRules, vrfName) THEN [s0 EXCEPT !.pc = "done"]
                 ELSE IF ~matchesVrfExportFilters(st.path, st.vrfRules[vrfName])
                      THEN [s0 EXCEPT !.pc = "done"]
                      ELSE [s0 EXCEPT !.rule = VrfExportRule(vrfName, st.vrfRules[vrfName]),
                                      !.site = "processVrfExport", !.pc = "exportRoute"]

\* ------------------------------------------------------------ processUpdate
\* the orders in which a range over a map keyed by VRF name may run
VrfNames == {"", "red"}
VrfOrders == { << "", "red" >>, << "red", "" >> }

\* lines 882-904 and 926-934: a withdrawal, a VPN path, or a unicast path
processUpdate(st) ==
    IF st.path.IsWithdraw THEN [st EXCEPT !.pc = "processUpdateWithdrawals"]
    ELSE IF st.path.nlri.vpn THEN [st EXCEPT !.pc = "processVrfExport"]
    ELSE [st EXCEPT !.pc = "processUpdateCopyRules"]

\* lines 906-913: the VRFs that track the prefix, collected under the read
\* lock; order is the iteration order of the range over e.exported
processUpdateWithdrawals(st, order) ==
    LET prefix == PlainPrefix(st.path)
        s0 == RLock(st)
        vrfsToWithdraw == SelectSeq(order, LAMBDA v : Tracked(s0, v, prefix))
    IN  [RUnlock(s0) EXCEPT !.todoVrfs = vrfsToWithdraw, !.pc = "processUpdateVrfs"]

\* lines 921-924: withdrawRoute for each collected VRF, then return
processUpdateVrfs(st) ==
    IF st.todoVrfs = << >> THEN [st EXCEPT !.pc = "done"]
    ELSE [st EXCEPT !.vrf = Head(st.todoVrfs), !.todoVrfs = Tail(@), !.pc = "withdrawRoute"]

\* lines 935-938: e.rules is copied under the read lock
processUpdateCopyRules(st) ==
    [RUnlock(RLock(st)) EXCEPT !.todoRules = st.rules, !.pc = "processUpdateRules"]

\* lines 945-961: exportRoute for each copied rule that matches the path
processUpdateRules(st) ==
    IF st.todoRules = << >> THEN [st EXCEPT !.pc = "done"]
    ELSE IF matchesRule(st.path, Head(st.todoRules))
         THEN [st EXCEPT !.rule = Head(st.todoRules), !.todoRules = Tail(@),
                         !.site = "processUpdate", !.pc = "exportRoute"]
         ELSE [st EXCEPT !.todoRules = Tail(@)]

\* --------------------------------------------------------- buildVrfMappings
\* lookupLinuxVrfTableId: LinkList, then the table of the VRF device
lookupLinuxVrfTableId(st, vrfName, fail) ==
    LET ok == KOk(st, fail)
        s1 == Call(st, "LinkList", vrfName, ok)
    IN  IF ~ok THEN [s1 EXCEPT !.err = "failed to list links", !.tableId = 0]
        ELSE IF vrfName \in DOMAIN KernelLinks
             THEN [s1 EXCEPT !.err = NoErr, !.tableId = KernelLinks[vrfName].Table]
             ELSE [s1 EXCEPT !.err = "VRF not found in Linux", !.tableId = 0]

\* st carries the two maps being built in st.rdToVrf and st.vrfRules
buildOneVrf(st, vrf, fail) ==
    LET s1 == IF vrf.Rd # "" THEN [st EXCEPT !.rdToVrf = Put(@, vrf.Rd, vrf.Name)] ELSE st
    IN  IF ~vrf.Enabled THEN s1
        ELSE LET linuxVrf == IF vrf.LinuxVrf = "" THEN vrf.Name ELSE vrf.LinuxVrf
                 validate == IF vrf.ValidateNexthop = "nil" THEN TRUE
                             ELSE vrf.ValidateNexthop = "true"
                 s2 == IF vrf.LinuxTableId = 0
                       THEN lookupLinuxVrfTableId(s1, linuxVrf, fail)
                       ELSE [s1 EXCEPT !.tableId = vrf.LinuxTableId, !.err = NoErr]
                 tbl == IF s2.err = NoErr THEN s2.tableId ELSE vrf.LinuxTableId
             IN  [s2 EXCEPT !.vrfRules = Put(@, vrf.Name,
                     [VrfName |-> vrf.Name, LinuxVrf |-> linuxVrf, LinuxTableId |-> tbl,
                      Metric |-> vrf.Metric, ValidateNexthop |-> validate,
                      CommunityList |-> vrf.CommunityList,
                      LargeCommunityList |-> vrf.LargeCommunityList])]

RECURSIVE buildEach(_, _, _)
buildEach(st, vrfs, fail) ==
    IF vrfs = << >> THEN st ELSE buildEach(buildOneVrf(st, Head(vrfs), fail), Tail(vrfs), fail)

\* e.mu.Lock() with a deferred Unlock: held until the function returns. A
\* failed lookupLinuxVrfTableId is only logged (335-343): the function always
\* returns nil (357)
buildVrfMappings(st, vrfs, fail) ==
    LET s1 == buildEach([Lock(st) EXCEPT !.rdToVrf = EmptyMap, !.vrfRules = EmptyMap],
                        vrfs, fail)
    IN  [Unlock(s1) EXCEPT !.err = NoErr]

\* ------------------------------------------------------- cleanupStaleRoutes
\* the tables of the kernel's VRF devices, in the order LinkList returns them
LinkTableSeq == << KernelLinks["red"].Table >>

\* lines 172-182: the main table (0), then the table of every VRF link;
\* a failing LinkList leaves the main table only
cleanupTables(st, fail) ==
    LET ok == KOk(st, fail)
        s1 == Call(st, "LinkList", "", ok)
    IN  [s1 EXCEPT !.tables = IF ok THEN << 0 >> \o LinkTableSeq ELSE << 0 >>]

\* client.RouteList(nil, FAMILY_ALL) for the main table, RouteListFiltered
\* with RT_FILTER_TABLE for another: the routes of that one table
RouteList(st, tableId, fail) ==
    LET ok == KOk(st, fail)
        s1 == Call(st, "RouteList", tableId, ok)
    IN  IF ok THEN [s1 EXCEPT !.err = NoErr, !.listed = {r \in st.kernel : r.Table = tableId}]
        ELSE [s1 EXCEPT !.err = "RouteList failed", !.listed = {}]

\* lines 217-237: RouteDel for every listed route of the engine's protocol
RECURSIVE cleanupDelete(_, _, _, _)
cleanupDelete(st, routes, proto, fail) ==
    IF routes = {} THEN st
    ELSE LET route == CHOOSE r \in routes : TRUE
             s1 == IF route.Protocol = proto THEN RouteDel(st, route, fail) ELSE st
         IN  cleanupDelete(s1, routes \ {route}, proto, fail)

\* lines 191-238: the loop over tablesToCheck
RECURSIVE cleanupEach(_, _, _, _)
cleanupEach(st, tables, proto, fail) ==
    IF tables = << >> THEN st
    ELSE LET s1 == RouteList(st, Head(tables), fail)
             s2 == IF s1.err # NoErr THEN s1 ELSE cleanupDelete(s1, s1.listed, proto, fail)
         IN  cleanupEach(s2, Tail(tables), proto, fail)

cleanupStaleRoutes(st, proto, fail) ==
    LET s1 == cleanupTables(st, fail)
    IN  [cleanupEach(s1, s1.tables, proto, fail) EXCEPT !.err = NoErr]

\* ------------------------------------------------------------- listExported
\* the deep copy returned to the management surface
listExported(exp) ==
    [v \in DOMAIN exp |->
        [p \in DOMAIN exp[v] |-> [Route |-> exp[v][p].Route, RuleName |-> exp[v][p].RuleName]]]

\* --------------------------------------------------- newNetlinkExportClient
\* a constructor that keeps the protocol id it was given
newRouteProtocol_AsGiven(routeProtocolArg) ==
    routeProtocolArg

newRouteProtocol(routeProtocolArg) ==
    IF routeProtocolArg = 0 THEN RTPROT_BGP ELSE routeProtocolArg

newDampeningInterval(dampeningIntervalArg) ==
    IF dampeningIntervalArg = 0 THEN defaultDampeningInterval ELSE dampeningIntervalArg

\* ------------------------------------------------------ reEvaluateAllRoutes
\* lines 394-398: the loop over the path list; a withdrawal is skipped. When
\* the list is done the tracked routes are collected.
reEvaluateAllRoutes(st) ==
    IF st.todoPaths = << >> THEN [st EXCEPT !.pc = "reEvalList"]
    ELSE IF Head(st.todoPaths).IsWithdraw THEN [st EXCEPT !.todoPaths = Tail(@)]
    ELSE [st EXCEPT !.path = Head(st.todoPaths), !.todoPaths = Tail(@),
                    !.pc = "reEvalCopyRules"]

\* lines 401-403: e.rules is read under the read lock
reEvalCopyRules(st) ==
    [RUnlock(RLock(st)) EXCEPT !.todoRules = st.rules, !.pc = "reEvalRules"]

\* lines 405-417: every rule that matches the path enters shouldExport, keyed
\* by (rule.VrfName, nlri.String()), and exportRoute is called
reEvalRules(st) ==
    IF st.todoRules = << >> THEN [st EXCEPT !.pc = "reEvaluateAllRoutes"]
    ELSE IF matchesRule(st.path, Head(st.todoRules))
         THEN [st EXCEPT !.should = @ \cup {<< Head(st.todoRules).VrfName,
                                               NlriString(st.path.nlri) >>},
                         !.rule = Head(st.todoRules), !.todoRules = Tail(@),
                         !.site = "reEvaluateAllRoutes", !.pc = "exportRoute"]
         ELSE [st EXCEPT !.todoRules = Tail(@)]

\* The ranges over e.exported and over each of its inner maps (427-428,
\* 1145-1146) visit the keys in an order Go leaves open: order.vrfs is the
\* order of the VRFs, order.prefixes[v] the order of the prefixes inside v.
PrefixOrders == { << <<"", P1>>, <<"", P2>> >>, << <<"", P2>>, <<"", P1>> >> }

RangeOrders ==
    { [vrfs |-> vo, prefixes |-> po] : vo \in VrfOrders, po \in [VrfNames -> PrefixOrders] }

\* the (vrf, prefix) pairs in the order of the nested ranges
RECURSIVE PairSeq(_)
PairSeq(order) ==
    IF order.vrfs = << >> THEN << >>
    ELSE LET v == Head(order.vrfs)
         IN  [i \in 1..Len(order.prefixes[v]) |-> [vrf |-> v, prefix |-> order.prefixes[v][i]]]
               \o PairSeq([order EXCEPT !.vrfs = Tail(@)])

\* lines 427-440: the tracked entries that are not in shouldExport, in the
\* order of the ranges
routesToWithdraw(st, order) ==
    LET sel == SelectSeq(PairSeq(order),
                   LAMBDA w : Tracked(st, w.vrf, w.prefix) /\ <<w.vrf, w.prefix>> \notin st.should)
    IN  [i \in 1..Len(sel) |->
            [vrf |-> sel[i].vrf, prefix |-> sel[i].prefix,
             route |-> st.exported[sel[i].vrf][sel[i].prefix].Route]]

\* lines 420-440: routesToWithdraw is collected under the read lock
reEvalList(st, order) ==
    LET s0 == RLock(st)
    IN  [RUnlock(s0) EXCEPT !.ws = routesToWithdraw(s0, order), !.pc = "reEvalWithdraw"]

\* line 443: the loop over routesToWithdraw
reEvalWithdraw(st) ==
    IF st.ws = << >> THEN [st EXCEPT !.pc = "done"] ELSE [st EXCEPT !.pc = "reEvalDel"]

\* line 450: RouteDel of the collected route
reEvalDel(st, ok) ==
    LET s1 == RouteDel(st, Head(st.ws).route, Oracle(st, ok))
    IN  IF s1.err # NoErr
        THEN [s1 EXCEPT !.pc = "reEvalFailed"]
        ELSE [s1 EXCEPT !.pc = "reEvalUntrack"]

\* lines 452-461: the error is counted; the entry stays
reEvalFailed(st) ==
    [Bump(st, "Errors") EXCEPT !.ws = Tail(@), !.pc = "reEvalWithdraw"]

\* lines 464-469: the entry, and the VRF's map when it is empty, are deleted
reEvalUntrack(st) ==
    LET s0 == Lock(st)
        w == Head(st.ws)
    IN  [Unlock(s0) EXCEPT !.exported = DeleteEntryAndVrf(@, w.vrf, w.prefix),
                           !.pc = "reEvalCount"]

\* lines 471-474: the withdrawal is counted
reEvalCount(st) ==
    [Bump(st, "Withdrawn") EXCEPT !.ws = Tail(@), !.pc = "reEvalWithdraw"]

\* -------------------------------------------------------------------- flush
\* the routes of every tracked entry, in the order of the ranges over
\* e.exported
flushRoutes(st, order) ==
    LET sel == SelectSeq(PairSeq(order), LAMBDA w : Tracked(st, w.vrf, w.prefix))
    IN  [i \in 1..Len(sel) |-> st.exported[sel[i].vrf][sel[i].prefix].Route]

\* lines 1143-1150: routesToDelete is collected under the read lock
flush(st, order) ==
    LET s0 == RLock(st)
    IN  [RUnlock(s0) EXCEPT !.routes = flushRoutes(s0, order), !.pc = "flushLoop"]

\* line 1153: the loop over routesToDelete
flushLoop(st) ==
    IF st.routes = << >> THEN [st EXCEPT !.pc = "flushClear"]
    ELSE [st EXCEPT !.pc = "flushDelete"]

\* lines 1154-1160: RouteDel; a failure is logged and the loop goes on
flushDelete(st, ok) ==
    [RouteDel(st, Head(st.routes), Oracle(st, ok)) EXCEPT !.routes = Tail(@),
                                                          !.pc = "flushLoop"]

\* a flush that keeps the tracking map when a RouteDel failed
flushClear_KeepOnError(st) ==
    IF \E i \in 1..Len(st.calls) : ~st.calls[i].ok
    THEN [st EXCEPT !.err = "failed to delete route", !.pc = "done"]
    ELSE [st EXCEPT !.exported = EmptyMap, !.err = NoErr, !.pc = "done"]

\* lines 1164-1172: e.exported is replaced by an empty map under the write
\* lock; flush returns nil
flushClear(st) ==
    LET s0 == Lock(st)
    IN  [Unlock(s0) EXCEPT !.exported = EmptyMap, !.err = NoErr, !.pc = "done"]

\* ------------------------------------------------ the operation in progress
\* The code of an operation between two of its shared accesses (a locked
\* section, a kernel call) touches its locals only: it is run as part of the
\* step that precedes it. resume runs st to the next shared access.
RECURSIVE resume(_)
resume(st) ==
    CASE st.pc = "exportRoute" -> resume(exportRoute(st))
      [] st.pc = "exportBuildRoute" -> resume(exportBuildRoute(st))
      [] st.pc = "exportReturn" -> resume(exportReturn(st))
      [] st.pc = "withdrawReturn" -> resume(withdrawReturn(st))
      [] st.pc = "processUpdate" -> resume(processUpdate(st))
      [] st.pc = "processUpdateVrfs" -> resume(processUpdateVrfs(st))
      [] st.pc = "processUpdateRules" -> resume(processUpdateRules(st))
      [] st.pc = "reEvaluateAllRoutes" -> resume(reEvaluateAllRoutes(st))
      [] st.pc = "reEvalRules" -> resume(reEvalRules(st))
      [] st.pc = "reEvalWithdraw" -> resume(reEvalWithdraw(st))
      [] st.pc = "flushLoop" -> resume(flushLoop(st))
      [] OTHER -> st

\* the positions at which the next thing an operation does is a kernel call
KernelPcs == {"isNexthopReachable", "exportDeleteOld", "exportLinkByName", "exportInstall",
              "withdrawRouteDel", "reEvalDel", "flushDelete"}

\* the positions inside exportRoute, withdrawRoute, processUpdate (with
\* processVrfExport), reEvaluateAllRoutes and flush
ExportPcs == {"isNexthopReachableCount", "isNexthopReachable", "isNexthopReachableFailed",
              "exportCheckTracked", "exportDeleteOld", "exportUntrackOld", "exportLinkByName",
              "exportInstall", "exportInstallFailed", "exportTrack", "exportCount"}
WithdrawPcs == {"withdrawRoute", "withdrawRouteDel", "withdrawRouteFailed",
                "withdrawRouteUntrack", "withdrawRouteCount"}
UpdatePcs == {"processUpdateWithdrawals", "processUpdateCopyRules", "processVrfExport"}
ReEvalPcs == {"reEvalCopyRules", "reEvalList", "reEvalDel", "reEvalFailed", "reEvalUntrack",
              "reEvalCount"}
FlushPcs == {"flush", "flushDelete", "flushClear"}

\* one step of an operation at a position inside exportRoute
exportRouteStep(st, ok) ==
    CASE st.pc = "isNexthopReachableCount" -> isNexthopReachableCount(st)
      [] st.pc = "isNexthopReachable" -> isNexthopReachable(st, ok)
      [] st.pc = "isNexthopReachableFailed" -> isNexthopReachableFailed(st)
      [] st.pc = "exportCheckTracked" -> exportCheckTracked(st)
      [] st.pc = "exportDeleteOld" -> exportDeleteOld(st, ok)
      [] st.pc = "exportUntrackOld" -> exportUntrackOld(st)
      [] st.pc = "exportLinkByName" -> exportLinkByName(st, ok)
      [] st.pc = "exportInstall" -> exportInstall(st, ok)
      [] st.pc = "exportInstallFailed" -> exportInstallFailed(st)
      [] st.pc = "exportTrack" -> exportTrack(st)
      [] st.pc = "exportCount" -> exportCount(st)

withdrawRouteStep(st, ok) ==
    CASE st.pc = "withdrawRoute" -> withdrawRoute(st)
      [] st.pc = "withdrawRouteDel" -> withdrawRouteDel(st, ok)
      [] st.pc = "withdrawRouteFailed" -> withdrawRouteFailed(st)
      [] st.pc = "withdrawRouteUntrack" -> withdrawRouteUntrack(st)
      [] st.pc = "withdrawRouteCount" -> withdrawRouteCount(st)

processUpdateStep(st, order) ==
    CASE st.pc = "processUpdateWithdrawals" -> processUpdateWithdrawals(st, order)
      [] st.pc = "processUpdateCopyRules" -> processUpdateCopyRules(st)
      [] st.pc = "processVrfExport" -> processVrfExport(st)

reEvaluateAllRoutesStep(st, ok, order) ==
    CASE st.pc = "reEvalCopyRules" -> reEvalCopyRules(st)
      [] st.pc = "reEvalList" -> reEvalList(st, order)
      [] st.pc = "reEvalDel" -> reEvalDel(st, ok)
      [] st.pc = "reEvalFailed" -> reEvalFailed(st)
      [] st.pc = "reEvalUntrack" -> reEvalUntrack(st)
      [] st.pc = "reEvalCount" -> reEvalCount(st)

flushStep(st, ok, order) ==
    CASE st.pc = "flush" -> flush(st, order)
      [] st.pc = "flushDelete" -> flushDelete(st, ok)
      [] st.pc = "flushClear" -> flushClear(st)

\* ---------------------------------------------------------------- dampening
PendingKeys == {NlriString(p.nlri) : p \in PathSet}

TimersOf(ts, key) == {t \in ts : NlriString(t.path.nlri) = key}

FreeTimerId(ts) == CHOOSE i \in 1..MaxTimers :
                      /\ i \notin {t.id : t \in ts}
                      /\ \A j \in 1..(i - 1) : j \in {t.id : t \in ts}

\* timer.Stop(): an armed timer is cancelled, a fired one runs its callback anyway
StopTimer(ts, id) == {t \in ts : ~(t.id = id /\ ~t.fired)}

\* a scheduleUpdate that arms the new timer and leaves the pending one running
scheduleDampened_NoStop(d, path) ==
    LET prefix == NlriString(path.nlri)
        id == FreeTimerId(IF Has(d.pendingUpdates, prefix)
                          THEN StopTimer(d.timers, d.pendingUpdates[prefix].timer)
                          ELSE d.timers)
    IN  [pendingUpdates |-> Put(d.pendingUpdates, prefix, [path |-> path, timer |-> id]),
         timers |-> d.timers \cup {[id |-> id, path |-> path, fired |-> FALSE]},
         stats |-> IF Has(d.pendingUpdates, prefix)
                   THEN [d.stats EXCEPT !.DampenedUpdates = @ + 1] ELSE d.stats]

\* lines 850-878 of scheduleUpdate, for a non-zero interval; d is a record
\* of pendingUpdates, timers and stats
scheduleDampened(d, path) ==
    LET prefix == NlriString(path.nlri)
    IN  IF Has(d.pendingUpdates, prefix)
        THEN LET stopped == StopTimer(d.timers, d.pendingUpdates[prefix].timer)
                 id == FreeTimerId(stopped)
             IN  [pendingUpdates |-> Put(d.pendingUpdates, prefix, [path |-> path, timer |-> id]),
                  timers |-> stopped \cup {[id |-> id, path |-> path, fired |-> FALSE]},
                  stats |-> [d.stats EXCEPT !.DampenedUpdates = @ + 1]]
        ELSE LET id == FreeTimerId(d.timers)
             IN  [pendingUpdates |-> Put(d.pendingUpdates, prefix, [path |-> path, timer |-> id]),
                  timers |-> d.timers \cup {[id |-> id, path |-> path, fired |-> FALSE]},
                  stats |-> d.stats]

\* ==================================================================== state
Nexthops == {NhA, NhB}
\* RouteGet answers with routes of the main table
NhMain == {254}
\* what RouteGet may return for a nexthop: no route, a route of the main
\* table, a route of the table of VRF device red
NhTableSets == { {}, NhMain, {100} }

StatNames == {"Exported", "Withdrawn", "Errors", "NexthopValidation", "NexthopFailed",
              "DampenedUpdates"}

NoBurst == [n |-> 0, d |-> 0, ok |-> TRUE, lastPath |-> NoPath]

\* the goroutines that run operations of the export engine: the consumer of
\* the RIB subscription, the callbacks of the dampening timers, the callers
\* of the management operations
Goroutines == {"g1", "g2"}

\* what an operation remembers of the state in which it was called
NoBefore == [exported |-> EmptyMap, kernel |-> {}, pendingUpdates |-> EmptyMap]

\* A goroutine that runs no operation. Of a running operation the record
\* holds: pc, the section it executes next; op, the operation called, and
\* site, the call site of the exportRoute in progress; the arguments path,
\* rule, vrf and pathList; the locals of the loops (todoPaths, todoRules,
\* todoVrfs, ws = routesToWithdraw, routes = routesToDelete, should =
\* shouldExport) and of exportRoute and withdrawRoute (route, old, hit); the
\* log of the operation (calls, exports, wd, anyErr, branch, oldDeleted, d =
\* its own increments of the counters, before, overlap = the operations that
\* returned while it ran). The last fields are the engine's and the kernel's
\* state during a step of the operation; they are empty between the steps.
GoIdle ==
    [pc |-> "idle", op |-> "none", site |-> "", path |-> NoPath, rule |-> NoRule,
     vrf |-> "", pathList |-> << >>, todoPaths |-> << >>, todoRules |-> << >>,
     todoVrfs |-> << >>, ws |-> << >>, routes |-> << >>, should |-> {},
     route |-> NoRoute, old |-> NoRoute, oldDeleted |-> FALSE, hit |-> FALSE,
     branch |-> "none", got |-> {}, err |-> NoErr, calls |-> << >>, exports |-> {},
     anyErr |-> FALSE, wd |-> {}, mu |-> "", tableId |-> 0, tables |-> << >>,
     listed |-> {}, d |-> [c \in StatNames |-> 0], before |-> NoBefore,
     repeat |-> FALSE, prevReplace |-> 0, prevExported |-> 0, drift |-> FALSE,
     wasTracked |-> FALSE, burst |-> NoBurst, overlap |-> << >>,
     exported |-> EmptyMap, kernel |-> {}, stats |-> [c \in StatNames |-> 0],
     nhRoutes |-> [nh \in Nexthops |-> {}], rdToVrf |-> EmptyMap, vrfRules |-> EmptyMap,
     rules |-> << >>, proto |-> 0]

\* the engine and the kernel leave the record of an operation between its steps
Strip(s) ==
    [s EXCEPT !.exported = EmptyMap, !.kernel = {}, !.stats = [c \in StatNames |-> 0],
              !.nhRoutes = [nh \in Nexthops |-> {}], !.rdToVrf = EmptyMap,
              !.vrfRules = EmptyMap, !.rules = << >>, !.proto = 0, !.got = {}]

FailSets == SUBSET (1..MaxFailIdx)

\* ================================================== pkg/netlink NetlinkClient
\* the protocol number of the routes the kernel installs itself
RTPROT_KERNEL == 2

\* a variant that returns every route the manager lists
GetConnectedRoutes_All(routes, linkOk, listOk) ==
    IF ~linkOk THEN [err |-> TRUE, routes |-> << >>]
    ELSE IF ~listOk THEN [err |-> TRUE, routes |-> << >>]
    ELSE [err |-> FALSE, routes |-> routes]

\* GetConnectedRoutes(interfaceName): routes is what manager.RouteList returns
\* for the link, linkOk and listOk say whether LinkByName and RouteList succeed
GetConnectedRoutes(routes, linkOk, listOk) ==
    IF ~linkOk THEN [err |-> TRUE, routes |-> << >>]
    ELSE IF ~listOk THEN [err |-> TRUE, routes |-> << >>]
    ELSE [err |-> FALSE,
          routes |-> SelectSeq(routes, LAMBDA route : route.Protocol = RTPROT_KERNEL)]


\* manager.RouteAdd(route): the route enters the kernel's tables; the kernel
\* refuses a route whose table, destination and priority it already has
RouteAdd(kernelRoutes, route, ok) ==
    IF ok /\ ~\E x \in kernelRoutes : SameKey(x, route)
    THEN [err |-> FALSE, kernel |-> kernelRoutes \cup {route}]
    ELSE [err |-> TRUE, kernel |-> kernelRoutes]

\* AddRoute(route) hands the route to the manager and returns its error
AddRoute(kernelRoutes, route, ok) == RouteAdd(kernelRoutes, route, ok)

\* the routes a caller of AddRoute passes: into the main table or the table
\* of VRF red, with the protocol of the engine or another one
AddRoutes ==
    { [Dst |-> <<"", P1>>, Gw |-> NhA, Table |-> tbl, Priority |-> 20, Protocol |-> proto,
       Flags |-> 0, LinkIndex |-> 0] : tbl \in {0, 100}, proto \in {RTPROT_BGP, RTPROT_KERNEL} }


\* the inputs of GetConnectedRoutes: the manager lists up to MaxRoutes routes of the
\* protocols kernel (2) and boot (3), or fails
MaxRoutes == 3

ListedRoutes == [Dst : {P1, P2}, Protocol : {RTPROT_KERNEL, RTPROT_KERNEL + 1}]

RouteLists == UNION { [1..n -> ListedRoutes] : n \in 0..MaxRoutes }

\* ======================================================= the import engine
\* ------------------------------------------------- the interface scanner
Interfaces == {"eth0", "eth1"}

\* an address of an interface: Network is the address masked with its prefix
\* length, in the form the NLRI prints; Class is what the predicates of net.IP
\* say about the address
MkAddr(network, class) == [Network |-> network, Class |-> class]

AddrA == MkAddr("192.168.100.0/24", "global")
AddrB == MkAddr("192.168.101.0/24", "global")
AddrLinkLocal == MkAddr("fe80::/64", "linklocal")

Eth0Addrs == {AddrA, AddrB, AddrLinkLocal}
Eth1Addrs == {AddrA}

\* interfaces without any address
NoAddrs == [i \in Interfaces |-> {}]

IfAddrSets == { [i \in Interfaces |-> IF i = "eth0" THEN a ELSE b] :
                  a \in SUBSET Eth0Addrs, b \in SUBSET Eth1Addrs }

isGlobal(addr) == addr.Class \notin {"loopback", "linklocal", "multicast", "unspecified"}

\* GetGlobalUnicastRoutes(interfaceName): the networks of the global unicast
\* addresses of the interface, or an error when the lookup fails (ifFail)
GetGlobalUnicastRoutes(addrs, interfaceName, ifFail) ==
    IF interfaceName \in ifFail
    THEN [err |-> TRUE, routes |-> {}]
    ELSE [err |-> FALSE,
          routes |-> { a.Network : a \in { x \in addrs[interfaceName] : isGlobal(x) } }]

\* ----------------------------------------------------------- import paths
MkImportPath(prefix, iface, isWithdraw) ==
    [Prefix |-> prefix, Iface |-> iface, IsWithdraw |-> isWithdraw]

\* path.Clone(isWithdraw)
Clone(path, isWithdraw) == [path EXCEPT !.IsWithdraw = isWithdraw]

\* ipNetsToPaths: one path per route, its source names the interface
ipNetsToPaths(routes, iface) == { MkImportPath(r, iface, FALSE) : r \in routes }

\* the scan loop of importForVrf: currentPaths[key] = path for the paths of
\* every interface in turn; an interface whose lookup fails is skipped
RECURSIVE scanInterfaces(_, _, _, _)
scanInterfaces(currentPaths, interfaces, addrs, ifFail) ==
    IF interfaces = << >> THEN currentPaths
    ELSE LET iface == Head(interfaces)
             got == GetGlobalUnicastRoutes(addrs, iface, ifFail)
             paths == ipNetsToPaths(got.routes, iface)
             keys == { p.Prefix : p \in paths }
             merged == [k \in (DOMAIN currentPaths) \cup keys |->
                           IF k \in keys THEN CHOOSE p \in paths : p.Prefix = k
                           ELSE currentPaths[k]]
         IN  scanInterfaces(IF got.err THEN currentPaths ELSE merged,
                            Tail(interfaces), addrs, ifFail)

\* line 184: a found path is new when its key is not advertised; the variant
\* takes every found path for new
importIsNew_Always(advertised, key) == TRUE

importIsNew(advertised, key) == ~Has(advertised, key)

\* withdraw clones of the advertised paths whose key is not in currentPaths
importWithdrawnPathList(currentPaths, advertised) ==
    { Clone(advertised[k], TRUE) : k \in (DOMAIN advertised) \ (DOMAIN currentPaths) }

\* ---------------------------------------------------------- the RIB adapter
RibEntry(vrfName, path) == [Vrf |-> vrfName, Prefix |-> path.Prefix]

\* BgpServer.addPathList(vrfName, pathList): an error changes nothing; else the
\* withdrawals leave the table of vrfName and the other paths enter it
addPathList(ribPaths, vrfName, pathList, ok) ==
    IF ~ok THEN [err |-> TRUE, rib |-> ribPaths]
    ELSE [err |-> FALSE,
          rib |-> (ribPaths \ { RibEntry(vrfName, p) : p \in { q \in pathList : q.IsWithdraw } })
                    \cup { RibEntry(vrfName, p) : p \in { q \in pathList : ~q.IsWithdraw } }]

\* ------------------------------------------------------------ importForVrf
ImportStatNames == {"Imported", "Withdrawn", "Errors"}

\* the advertised paths of a VRF, an empty map before its first scan
advertisedOf(adv, vrfName) == IF Has(adv, vrfName) THEN adv[vrfName] ELSE EmptyMap

\* The functions of the import engine are operators on a record im: the
\* position and the locals of the goroutine that runs runImport, together
\* with what it reads and writes (advertisedPaths, stats, rib, the interface
\* addresses addrs, the configuration cfg). One operator is one access to
\* this shared state; no lock is held but statsMu around the counters.
\* The maps that n.advertisedPaths holds are not written after they were
\* stored (138, 207), so that a goroutine that has read an entry ranges
\* over a map that does not change.
\* im.calls are the submissions of the scan of the scope so far, im.scans the
\* log of the scans of this run.

\* line 137: the entry of the scope is read and compared with nil; im.rec
\* notes the state in which the scan of the scope began
importForVrf(im) ==
    [im EXCEPT !.isNil = ~Has(im.advertisedPaths, im.vrf),
               !.currentPaths = EmptyMap, !.todoIfaces = im.interfaces, !.ifFail = {},
               !.calls = << >>,
               !.rec = [before |-> advertisedOf(im.advertisedPaths, im.vrf),
                        advBefore |-> im.advertisedPaths, ribBefore |-> im.rib,
                        errorsBefore |-> im.stats.Errors],
               !.pc = "importInit"]

\* the branch of line 137
importInit(im) ==
    IF im.isNil THEN [im EXCEPT !.pc = "importCreate"] ELSE [im EXCEPT !.pc = "importScan"]

\* line 138: an empty map is stored for the scope
importCreate(im) ==
    [im EXCEPT !.advertisedPaths = Put(@, im.vrf, EmptyMap), !.pc = "importScan"]

\* line 149: the loop over the interfaces of the scope
importScan(im) ==
    IF im.todoIfaces = << >> THEN [im EXCEPT !.pc = "importLen"]
    ELSE [im EXCEPT !.pc = "importLookup"]

\* lines 150-172: the routes of one interface enter currentPaths; a lookup
\* that fails is logged and the interface skipped
importLookup(im, ok) ==
    LET iface == Head(im.todoIfaces)
    IN  [im EXCEPT !.currentPaths = scanInterfaces(@, << iface >>, im.addrs,
                                                   IF ok THEN {} ELSE {iface}),
                   !.ifFail = IF ok THEN @ ELSE @ \cup {iface},
                   !.todoIfaces = Tail(@),
                   !.pc = "importScan"]

\* lines 175-182: the entry of the scope is read for the length that is
\* logged; newPathList is empty and the range over currentPaths begins
importLen(im) ==
    [im EXCEPT !.newPathList = {}, !.todoKeys = DOMAIN im.currentPaths,
               !.pc = "importDiffLoop"]

\* line 183: the range over currentPaths
importDiffLoop(im) ==
    IF im.todoKeys = {} THEN [im EXCEPT !.pc = "importDiffWithdrawn"]
    ELSE [im EXCEPT !.pc = "importDiffNew"]

\* lines 184-191, one iteration: the range yields the first key of keys
\* that it has not yielded; n.advertisedPaths[vrfName][key] is read and the
\* path appended to newPathList when the key is not there
importDiffNew(im, keys) ==
    LET key == Head(SelectSeq(keys, LAMBDA k : k \in im.todoKeys))
    IN  [im EXCEPT !.newPathList =
                       IF importIsNew(advertisedOf(im.advertisedPaths, im.vrf), key)
                       THEN @ \cup {im.currentPaths[key]} ELSE @,
                   !.todoKeys = @ \ {key},
                   !.pc = "importDiffLoop"]

\* lines 195-204: withdrawnPathList; the range expression
\* n.advertisedPaths[vrfName] is read once, the keys are looked up in
\* currentPaths
importDiffWithdrawn(im) ==
    [im EXCEPT !.withdrawnPathList =
                   importWithdrawnPathList(im.currentPaths,
                                           advertisedOf(im.advertisedPaths, im.vrf)),
               !.pc = "importSetAdvertised"]

\* the assignment n.advertisedPaths[vrfName] = currentPaths (line 207); the
\* variant keeps one map for all scopes
importSetAdvertised_OneMap(im, vrfName, currentPaths) ==
    [im EXCEPT !.advertisedPaths = [v \in (DOMAIN @) \cup {vrfName} |-> currentPaths],
               !.pc = "importAdd"]

importSetAdvertised(im, vrfName, currentPaths) ==
    [im EXCEPT !.advertisedPaths = Put(@, vrfName, currentPaths), !.pc = "importAdd"]

\* line 210: new paths are submitted when there are any
importAdd(im) ==
    IF im.newPathList = {} THEN [im EXCEPT !.pc = "importWithdraw"]
    ELSE [im EXCEPT !.pc = "importSubmitNew"]

\* line 215: addPathList(vrfName, newPathList)
importSubmitNew(im, ok) ==
    LET r == addPathList(im.rib, im.vrf, im.newPathList, ok)
        c == [vrf |-> im.vrf, pathList |-> im.newPathList, err |-> r.err]
    IN  [im EXCEPT !.calls = Append(@, c), !.rib = r.rib, !.err = r.err,
                   !.added = @ \cup { RibEntry(im.vrf, q) : q \in im.newPathList },
                   !.pc = "importCountNew"]

\* lines 220-233: Errors or Imported is counted under statsMu
importCountNew(im) ==
    IF im.err
    THEN [im EXCEPT !.stats.Errors = @ + 1, !.pc = "importWithdraw"]
    ELSE [im EXCEPT !.stats.Imported = @ + Cardinality(im.newPathList),
                    !.pc = "importWithdraw"]

\* line 237: withdrawals are submitted when there are any
importWithdraw(im) ==
    IF im.withdrawnPathList = {} THEN [im EXCEPT !.pc = "importReturn"]
    ELSE [im EXCEPT !.pc = "importSubmitWithdrawn"]

\* a scan that returns without its withdrawals when a submission has failed
importSubmitWithdrawn_UnlessAddFailed(im, ok) ==
    IF \E i \in 1..Len(im.calls) : im.calls[i].err
    THEN [im EXCEPT !.pc = "importReturn"]
    ELSE LET r == addPathList(im.rib, im.vrf, im.withdrawnPathList, ok)
             c == [vrf |-> im.vrf, pathList |-> im.withdrawnPathList, err |-> r.err]
         IN  [im EXCEPT !.calls = Append(@, c), !.rib = r.rib, !.err = r.err,
                        !.withdrawn = @ \cup { RibEntry(im.vrf, q) : q \in im.withdrawnPathList },
                        !.pc = "importCountWithdrawn"]

\* line 238: addPathList(vrfName, withdrawnPathList)
importSubmitWithdrawn(im, ok) ==
    LET r == addPathList(im.rib, im.vrf, im.withdrawnPathList, ok)
        c == [vrf |-> im.vrf, pathList |-> im.withdrawnPathList, err |-> r.err]
    IN  [im EXCEPT !.calls = Append(@, c), !.rib = r.rib, !.err = r.err,
                   !.withdrawn = @ \cup { RibEntry(im.vrf, q) : q \in im.withdrawnPathList },
                   !.pc = "importCountWithdrawn"]

\* lines 243-253: Errors or Withdrawn is counted under statsMu
importCountWithdrawn(im) ==
    IF im.err
    THEN [im EXCEPT !.stats.Errors = @ + 1, !.pc = "importReturn"]
    ELSE [im EXCEPT !.stats.Withdrawn = @ + Cardinality(im.withdrawnPathList),
                    !.pc = "importReturn"]

\* importForVrf returns to runImport: to line 98 after the global scope, to
\* the range over globalRib.Vrfs (106) after a VRF. The scan enters the log.
importReturn(im) ==
    LET scan == [vrf |-> im.vrf, interfaces |-> im.interfaces, ifFail |-> im.ifFail,
                 before |-> im.rec.before, current |-> im.currentPaths,
                 calls |-> im.calls,
                 errorsBefore |-> im.rec.errorsBefore, errorsAfter |-> im.stats.Errors,
                 advBefore |-> im.rec.advBefore, advAfter |-> im.advertisedPaths,
                 ribBefore |-> im.rec.ribBefore, ribAfter |-> im.rib]
    IN  [im EXCEPT !.scans = Append(@, scan),
                   !.pc = IF im.scope = "global" THEN "runImportVrfs" ELSE "runImportRange"]

\* ---------------------------------------------------------------- runImport
\* The configuration runImport reads: the global import section
\* (bgpConfig.Netlink.Import), the VRF sections (bgpConfig.Vrfs) and the VRFs
\* of the RIB (globalRib.Vrfs; IsNil when the server has no globalRib).
ImportGlobal == [Enabled |-> TRUE, Vrf |-> "", InterfaceList |-> << "eth0" >>]
ImportVrfs == << [Name |-> "red", Enabled |-> TRUE, InterfaceList |-> << "eth0", "eth1" >>] >>
ImportVrfBlue == [Name |-> "blue", Enabled |-> TRUE, InterfaceList |-> << "eth1" >>]
RibVrfs(names) == [IsNil |-> FALSE, Vrfs |-> names]
ImportScopes == {"", "red", "blue"}

\* the orders in which the range over globalRib.Vrfs may visit the VRFs
ImportVrfOrders == { << "red", "blue" >>, << "blue", "red" >> }

\* the orders in which the range over currentPaths may yield its keys
ImportKeyOrders == { << AddrA.Network, AddrB.Network >>, << AddrB.Network, AddrA.Network >> }

\* the orders of the ranges of a run of runImport
ImportOrders == [vrfs : ImportVrfOrders, keys : ImportKeyOrders]
ImportOrder0 == [vrfs |-> << "red", "blue" >>, keys |-> << AddrA.Network, AddrB.Network >>]

\* lines 71-95: the global import section is read; when it is enabled its
\* scope is scanned first
runImport(im) ==
    IF im.cfg.global.Enabled
    THEN [im EXCEPT !.scope = "global", !.vrf = im.cfg.global.Vrf,
                    !.interfaces = im.cfg.global.InterfaceList, !.pc = "importForVrf"]
    ELSE [im EXCEPT !.pc = "runImportVrfs"]

\* lines 98-105: vrfConfigMap is built from bgpConfig.Vrfs; without a
\* globalRib no VRF is scanned
runImportVrfs(im) ==
    LET names == { im.cfg.vrfs[i].Name : i \in 1..Len(im.cfg.vrfs) }
        lastOf(name) == CHOOSE i \in 1..Len(im.cfg.vrfs) :
                         /\ im.cfg.vrfs[i].Name = name
                         /\ \A j \in (i + 1)..Len(im.cfg.vrfs) : im.cfg.vrfs[j].Name # name
    IN  [im EXCEPT !.vrfConfigMap = [name \in names |-> im.cfg.vrfs[lastOf(name)]],
                   !.visited = {},
                   !.pc = IF im.cfg.globalRib.IsNil THEN "done" ELSE "runImportRange"]

\* lines 106-131: the range over globalRib.Vrfs yields its next key, the
\* first of order that was not visited; a VRF is scanned when it has a
\* configuration section with netlink-import enabled
runImportRange(im, vrfs) ==
    LET rest == SelectSeq(vrfs, LAMBDA v : v \in im.cfg.globalRib.Vrfs \ im.visited)
    IN  IF rest = << >> THEN [im EXCEPT !.pc = "done"]
        ELSE LET vrfName == Head(rest)
                 hasConfig == Has(im.vrfConfigMap, vrfName)
             IN  IF hasConfig /\ im.vrfConfigMap[vrfName].Enabled
                 THEN [im EXCEPT !.visited = @ \cup {vrfName}, !.scope = "vrf",
                                 !.vrf = vrfName,
                                 !.interfaces = im.vrfConfigMap[vrfName].InterfaceList,
                                 !.pc = "importForVrf"]
                 ELSE [im EXCEPT !.visited = @ \cup {vrfName}]

\* the code between two accesses to the shared state touches locals only
RECURSIVE importResume(_)
importResume(im) ==
    CASE im.pc = "importInit" -> importResume(importInit(im))
      [] im.pc = "importScan" -> importResume(importScan(im))
      [] im.pc = "importDiffLoop" -> importResume(importDiffLoop(im))
      [] im.pc = "importAdd" -> importResume(importAdd(im))
      [] im.pc = "importWithdraw" -> importResume(importWithdraw(im))
      [] im.pc = "importReturn" -> importResume(importReturn(im))
      [] OTHER -> im

\* the positions at which a lookup or a submission may fail
ImportCallPcs == {"importLookup", "importSubmitNew", "importSubmitWithdrawn"}

\* the positions at which n.advertisedPaths is written, and those at which
\* it is read or written
ImportWritePcs == {"importCreate", "importSetAdvertised"}
ImportMapPcs ==
    ImportWritePcs \cup {"importForVrf", "importLen", "importDiffNew", "importDiffWithdrawn"}

\* one access of a run of runImport to the shared state; ok is the outcome
\* of a lookup or submission, order the orders of the ranges
runImportStep(im, ok, order) ==
    CASE im.pc = "runImport" -> runImport(im)
      [] im.pc = "runImportVrfs" -> runImportVrfs(im)
      [] im.pc = "runImportRange" -> runImportRange(im, order.vrfs)
      [] im.pc = "importForVrf" -> importForVrf(im)
      [] im.pc = "importCreate" -> importCreate(im)
      [] im.pc = "importLookup" -> importLookup(im, ok)
      [] im.pc = "importLen" -> importLen(im)
      [] im.pc = "importDiffNew" -> importDiffNew(im, order.keys)
      [] im.pc = "importDiffWithdrawn" -> importDiffWithdrawn(im)
      [] im.pc = "importSetAdvertised" -> importSetAdvertised(im, im.vrf, im.currentPaths)
      [] im.pc = "importSubmitNew" -> importSubmitNew(im, ok)
      [] im.pc = "importCountNew" -> importCountNew(im)
      [] im.pc = "importSubmitWithdrawn" -> importSubmitWithdrawn(im, ok)
      [] im.pc = "importCountWithdrawn" -> importCountWithdrawn(im)

\* a run of runImport with no other goroutine at work, from its position to
\* its return; the lookups and submissions of the run are counted from k,
\* and those whose number is in fail return an error
RECURSIVE runImportAlone(_, _, _, _)
runImportAlone(im, fail, order, k) ==
    IF im.pc = "done" THEN im
    ELSE LET isCall == im.pc \in ImportCallPcs
         IN  runImportAlone(importResume(runImportStep(im, ~isCall \/ k \notin fail, order)),
                            fail, order, IF isCall THEN k + 1 ELSE k)

\* the import configuration the server starts with, and the configurations
\* a reload or a VRF lifecycle event may lead to: the global import or the
\* import of VRF red disabled, VRF red deleted from the configuration, the
\* global import targeting VRF red, VRF red configured but not in the RIB,
\* a second VRF, a server without globalRib
ImportCfg0 == [global |-> ImportGlobal, vrfs |-> ImportVrfs, globalRib |-> RibVrfs({"red"})]

ImportConfigs ==
    { ImportCfg0,
      [ImportCfg0 EXCEPT !.global.Enabled = FALSE],
      [ImportCfg0 EXCEPT !.vrfs[1].Enabled = FALSE],
      [ImportCfg0 EXCEPT !.vrfs = << >>],
      [ImportCfg0 EXCEPT !.global.Vrf = "red"],
      [ImportCfg0 EXCEPT !.globalRib = RibVrfs({})],
      [ImportCfg0 EXCEPT !.vrfs = Append(@, ImportVrfBlue),
                         !.globalRib = RibVrfs({"red", "blue"})],
      [ImportCfg0 EXCEPT !.globalRib.IsNil = TRUE] }

\* the goroutines that call runImport: loop() on its ticker (znetlink.go
\* 263-276) and the caller of rescan() (258-261)
Scanners == {"loop", "rescan"}

\* A goroutine that does not run runImport. Of a run the record holds pc, the
\* access it makes next; vrfConfigMap and visited, the locals of runImport;
\* scope, vrf, interfaces, isNil, currentPaths, todoKeys, newPathList,
\* withdrawnPathList, the arguments and locals of importForVrf; err, the result of addPathList; the
\* log of the run (rec, ifFail, calls, scans, added, withdrawn, prevClean,
\* overlap). The last fields are the state the run reads and writes during a
\* step; they are empty between the steps.
ScanIdle ==
    [pc |-> "idle", vrfConfigMap |-> EmptyMap, visited |-> {}, scope |-> "", vrf |-> "",
     interfaces |-> << >>, todoIfaces |-> << >>, ifFail |-> {}, currentPaths |-> EmptyMap,
     isNil |-> FALSE, todoKeys |-> {}, newPathList |-> {}, withdrawnPathList |-> {}, err |-> FALSE, calls |-> << >>,
     rec |-> [before |-> EmptyMap, advBefore |-> EmptyMap, ribBefore |-> {},
              errorsBefore |-> 0],
     scans |-> << >>, added |-> {}, withdrawn |-> {}, prevClean |-> FALSE,
     overlap |-> << >>,
     advertisedPaths |-> EmptyMap, stats |-> [c \in ImportStatNames |-> 0], rib |-> {},
     addrs |-> NoAddrs, cfg |-> ImportCfg0]

ImportStrip(im) ==
    [im EXCEPT !.advertisedPaths = EmptyMap, !.stats = [c \in ImportStatNames |-> 0],
               !.rib = {}, !.addrs = NoAddrs, !.cfg = ImportCfg0]

\* the number of scans and address changes of a behaviour
MaxImportOps == 3

\* the lookups and submissions of the constructor's scan
MaxImportCalls == 5

ImportFailSets == SUBSET (1..MaxImportCalls)

\* newNetlinkClient (znetlink.go 54-69): the maps are empty, then runImport
\* is called once (line 66) before the loop is started (67)
newNetlinkClient(icfg, addrs, fail, order) ==
    runImportAlone(importResume(
        [ScanIdle EXCEPT !.pc = "runImport", !.addrs = addrs, !.cfg = icfg]), fail, order, 1)

\* ------------------------------------------------- the locks of the engine
\* e.mu, e.dampenMu and e.statsMu; mu and statsMu are sync.RWMutex
Mutexes == {"mu", "dampenMu", "statsMu"}

\* a mutex: the goroutine holding it for writing, the goroutines holding it
\* for reading, and the goroutines that have called Lock and wait; a waiting
\* Lock keeps new readers out (sync.RWMutex)
MutexFree == [writer |-> "", readers |-> {}, pending |-> {}]

\* m.Lock() ... m.Unlock() and m.RLock() ... m.RUnlock() as instructions
Locked(m) == << << "Lock", m >>, << "Unlock", m >> >>
RLocked(m) == << << "RLock", m >>, << "RUnlock", m >> >>

Cat(A, B) == { a \o b : a \in A, b \in B }

\* isNexthopReachable, lines 539-566: NexthopValidation is counted, and
\* NexthopFailed when the nexthop is not reachable
isNexthopReachableLocks(reachable) ==
    IF reachable THEN Locked("statsMu") ELSE Locked("statsMu") \o Locked("statsMu")

\* exportRoute, lines 616-664: the idempotency check; when the parameters
\* changed the read lock is released (633) before the entry is deleted under
\* the write lock (652-654). The variant keeps the read lock until then.
exportCheckTrackedLocks_Upgrade(changed) ==
    IF changed
    THEN << << "RLock", "mu" >>, << "Lock", "mu" >>, << "Unlock", "mu" >>,
            << "RUnlock", "mu" >> >>
    ELSE RLocked("mu")

exportCheckTrackedLocks(changed) ==
    IF changed THEN RLocked("mu") \o Locked("mu") ELSE RLocked("mu")

\* exportRoute, lines 571-745: the lock operations of its runs
exportRouteLocks ==
    LET validation == { << >>, isNexthopReachableLocks(TRUE) }
        install == { Locked("statsMu"),                       \* 712-716, RouteReplace failed
                     Locked("mu") \o Locked("statsMu") }      \* 729-743
    IN  { isNexthopReachableLocks(FALSE) }                    \* 604-610
          \cup Cat(validation, { exportCheckTrackedLocks(FALSE) })          \* 629-631
          \cup Cat(validation, Cat({ exportCheckTrackedLocks(c) : c \in BOOLEAN }, install))

\* withdrawRoute, lines 776-819
withdrawRouteLocks ==
    { RLocked("mu"),                                          \* not tracked
      RLocked("mu") \o Locked("statsMu"),                     \* RouteDel failed
      RLocked("mu") \o Locked("mu") \o Locked("statsMu") }

\* the routes a re-evaluation withdraws
MaxWithdrawLoop == 2

\* reEvaluateAllRoutes, lines 443-476: for each route of routesToWithdraw,
\* statsMu when RouteDel failed (452-456), mu and then statsMu when it
\* succeeded (464-474)
RECURSIVE reEvalWithdrawLoop(_)
reEvalWithdrawLoop(n) ==
    IF n = 0 THEN { << >> }
    ELSE Cat({ Locked("statsMu"), Locked("mu") \o Locked("statsMu") },
             reEvalWithdrawLoop(n - 1))

reEvalWithdrawLocks == UNION { reEvalWithdrawLoop(n) : n \in 0..MaxWithdrawLoop }

\* the operations of the engine and, for each, the sequences of lock
\* operations its runs perform. No lock is held where scheduleUpdate (846),
\* processDampenedUpdate (839), processUpdate (922, 958, 1017) and
\* reEvaluateAllRoutes (415) call processUpdate, exportRoute or withdrawRoute:
\* the goroutine enters the callee as its next operation, and the caller's
\* next locked section is the operation after that.
EngineOpNames ==
    {"scheduleUpdate", "processDampenedUpdate", "processUpdate", "exportRoute",
     "withdrawRoute", "reEvaluateAllRoutes", "flush", "listExported", "getRules",
     "getStats", "setRules"}

LockProgram(op) ==
    CASE op = "scheduleUpdate" ->
           { Locked("dampenMu"),                              \* 853-878, new entry
             << << "Lock", "dampenMu" >>, << "Lock", "statsMu" >>,
                << "Unlock", "statsMu" >>, << "Unlock", "dampenMu" >> >> }
      [] op = "processDampenedUpdate" -> { Locked("dampenMu") }   \* 834-836
      [] op = "processUpdate" -> { RLocked("mu") }            \* 906-913, 935-938, 982-991
      [] op = "exportRoute" -> exportRouteLocks
      [] op = "withdrawRoute" -> withdrawRouteLocks
      [] op = "reEvaluateAllRoutes" ->
           { RLocked("mu") }                                  \* 402-404, once per path
             \cup Cat({ RLocked("mu") }, reEvalWithdrawLocks) \* 427-440, 443-476
      [] op = "flush" -> { RLocked("mu") \o Locked("mu") }    \* 1143-1166
      [] op = "listExported" -> { RLocked("mu") }             \* 1070-1071
      [] op = "getRules" -> { RLocked("mu") }                 \* 1090-1091
      [] op = "getStats" -> { RLocked("statsMu") }            \* 1063-1064
      [] op = "setRules" -> { Locked("mu") }                  \* 256-257

\* the goroutines that run operations of the engine
Threads == {"t1", "t2", "t3"}

\* a goroutine: the lock operations still ahead in the operation it runs
ThreadIdle == [prog |-> << >>]
\* ------------------------------------------------------- ghosts and frames
\* the process runs: the runtime has not aborted it
Alive == ~shutdown.fatal

\* every operation counts as one; the steps of an operation do not count
Step ==
    /\ Alive
    /\ nOps < MaxOps
    /\ nOps' = nOps + 1

NoLast == [op |-> "none", path |-> NoPath, pathList |-> << >>, rule |-> NoRule, vrf |-> "",
           err |-> NoErr, calls |-> << >>, branch |-> "none", old |-> NoRoute,
           oldDeleted |-> FALSE, exports |-> {}, anyErr |-> FALSE, wd |-> {},
           d |-> [c \in StatNames |-> 0], sameExported |-> TRUE, sameKernel |-> TRUE,
           repeat |-> FALSE, prevReplace |-> 0, prevExported |-> 0,
           drift |-> FALSE, wasTracked |-> FALSE, burst |-> NoBurst, result |-> FALSE,
           scans |-> << >>, routes |-> << >>, linkOk |-> TRUE, listOk |-> TRUE,
           connected |-> [err |-> FALSE, routes |-> << >>],
           before |-> NoBefore, overlap |-> << >>, added |-> {}, prevClean |-> FALSE]

\* an operation has made a step and has not returned
Busy == [NoLast EXCEPT !.op = "running"]

\* both engines run: neither e.stopCh nor n.dead is closed, the import loop
\* waits in its select
Running == [stopCh |-> FALSE, dead |-> FALSE, loop |-> "select", fatal |-> FALSE]

\* nothing is in progress: no operation of the export engine, no scan, no
\* goroutine of the lock machine
ConcIdle ==
    [go |-> [g \in Goroutines |-> GoIdle],
     scan |-> [g \in Scanners |-> ScanIdle],
     thr |-> [t \in Threads |-> ThreadIdle],
     locks |-> [m \in Mutexes |-> MutexFree]]

\* no operation and no scan is in progress
Quiet ==
    /\ \A g \in Goroutines : conc.go[g].pc = "idle"
    /\ \A g \in Scanners : conc.scan[g].pc = "idle"

\* the record of a function that runs in one piece, at its call
St0 ==
    [GoIdle EXCEPT !.exported = exported, !.kernel = kernel, !.stats = stats,
                   !.nhRoutes = nhRoutes, !.rdToVrf = rdToVrf, !.vrfRules = vrfRules,
                   !.rules = rules, !.proto = routeProtocol]

\* the record of goroutine g at a step: its frame, and the engine and the
\* kernel as they are now
GSt(g) ==
    [conc.go[g] EXCEPT !.exported = exported, !.kernel = kernel, !.stats = stats,
                       !.nhRoutes = nhRoutes, !.rdToVrf = rdToVrf, !.vrfRules = vrfRules,
                       !.rules = rules, !.proto = routeProtocol]

\* the frame of an operation at its call
Frame(op, pc) ==
    [St0 EXCEPT !.op = op, !.pc = pc,
                !.before = [exported |-> exported, kernel |-> kernel,
                            pendingUpdates |-> pendingUpdates]]

CountCalls(calls, op) == Cardinality({i \in 1..Len(calls) : calls[i].op = op})

\* the routes of the prefix that are tracked and in the kernel
InstalledFor(s, prefix) ==
    { [vrf |-> v, prefix |-> prefix, route |-> s.exported[v][prefix].Route] :
        v \in { x \in DOMAIN s.exported :
                  /\ Has(s.exported[x], prefix)
                  /\ s.exported[x][prefix].Route \in s.kernel } }

\* what an operation that returns leaves with the operations still running
Result(s) ==
    [op |-> s.op, path |-> s.path, rule |-> s.rule, err |-> s.err, calls |-> s.calls,
     installed |-> InstalledFor(s, PlainPrefix(s.path))]

\* what an operation that returns leaves in last
Done(s) ==
    [NoLast EXCEPT
        !.op = s.op,
        !.path = IF s.op \in {"reEvaluateAllRoutes", "flush", "buildVrfMappings",
                              "newNetlinkExportClient"} THEN NoPath ELSE s.path,
        !.pathList = s.pathList,
        !.rule = IF s.op = "exportRoute" THEN s.rule ELSE NoRule,
        !.vrf = IF s.op = "exportRoute" THEN s.rule.VrfName
                ELSE IF s.op = "withdrawRoute" THEN s.vrf ELSE "",
        !.err = s.err, !.calls = s.calls, !.branch = s.branch, !.old = s.old,
        !.oldDeleted = s.oldDeleted, !.exports = s.exports, !.anyErr = s.anyErr,
        !.wd = s.wd, !.d = s.d,
        !.sameExported = (s.exported = s.before.exported),
        !.sameKernel = (s.kernel = s.before.kernel),
        !.repeat = s.repeat, !.prevReplace = s.prevReplace,
        !.prevExported = s.prevExported, !.drift = s.drift, !.wasTracked = s.wasTracked,
        !.burst = s.burst, !.before = s.before, !.overlap = s.overlap]

\* the record of a scan of goroutine g at a step
ImSt(g) ==
    [conc.scan[g] EXCEPT !.advertisedPaths = advertisedPaths, !.stats = importStats,
                         !.rib = rib, !.addrs = ifAddrs, !.cfg = importCfg]

ScanFailed(scan) == \E i \in 1..Len(scan.calls) : scan.calls[i].err

\* every interface lookup and every submission of the scans succeeded
ScansClean(scans) ==
    \A i \in 1..Len(scans) : scans[i].ifFail = {} /\ ~ScanFailed(scans[i])

\* what a run of runImport that returns leaves in last
ImportDone(s) ==
    [NoLast EXCEPT !.op = "runImport", !.scans = s.scans, !.added = s.added,
                   !.overlap = s.overlap, !.prevClean = s.prevClean]

\* newNetlinkClient has returned: every enabled scope has been scanned once,
\* each lookup and each submission with an outcome of its own
ImportInit ==
    /\ importCfg = ImportCfg0
    /\ \E fail \in ImportFailSets, order \in ImportOrders :
          LET im == newNetlinkClient(importCfg, ifAddrs, fail, order)
          IN  /\ advertisedPaths = im.advertisedPaths
              /\ importStats = im.stats
              /\ rib = im.rib

Init ==
    /\ cfg \in [routeProtocol : {0, 11}, dampeningInterval : {0, 100}]
    /\ routeProtocol = newRouteProtocol(cfg.routeProtocol)
    /\ dampeningInterval = newDampeningInterval(cfg.dampeningInterval)
    /\ rules = << >>
    /\ exported = EmptyMap
    /\ rdToVrf = EmptyMap
    /\ vrfRules = EmptyMap
    /\ pendingUpdates = EmptyMap
    /\ stats = [c \in StatNames |-> 0]
    /\ timers = {}
    /\ kernel = {}
    /\ nhRoutes = [nh \in Nexthops |-> NhMain]
    /\ last = NoLast
    /\ burst = [k \in PendingKeys |-> NoBurst]
    /\ nOps = 0
    /\ ifAddrs = NoAddrs
    /\ ImportInit
    /\ delivered = [k \in PendingKeys |-> NoPath]
    /\ shutdown = Running
    /\ conc = ConcIdle

\* ================================================================== actions
\* what a step of an operation of the export engine leaves alone
engineFrame ==
    UNCHANGED << rules, rdToVrf, vrfRules, dampeningInterval, routeProtocol, nhRoutes, cfg,
                 importVars, delivered, shutdown >>

\* goroutine g has made a step that led to s: the engine and the kernel are
\* what the step left; when the operation has returned, g is free and the
\* operations still running note the return
Commit(g, s) ==
    /\ Alive
    /\ exported' = s.exported
    /\ kernel' = s.kernel
    /\ stats' = s.stats
    /\ IF s.pc = "done"
       THEN /\ last' = Done(s)
            /\ conc' = [conc EXCEPT !.go =
                          [h \in Goroutines |->
                             IF h = g \/ conc.go[h].pc = "idle" THEN GoIdle
                             ELSE [conc.go[h] EXCEPT !.overlap = Append(@, Result(s))]]]
       ELSE /\ last' = Busy
            /\ conc' = [conc EXCEPT !.go[g] = Strip(s)]

\* the kernel call of a step may fail at the first MaxFailIdx calls of an
\* operation; a step without kernel call has one outcome
OkAt(g, ok) ==
    ok \/ (conc.go[g].pc \in KernelPcs /\ Len(conc.go[g].calls) < MaxFailIdx)

\* the order of a range matters at the step that ranges
DefaultOrder == [vrfs |-> << "", "red" >>,
                 prefixes |-> [v \in VrfNames |-> << <<"", P1>>, <<"", P2>> >>]]

\* setRules (lines 254-258)
SetRules(rl) ==
    /\ Step
    /\ rules' = rl
    /\ last' = [NoLast EXCEPT !.op = "setRules"]
    /\ UNCHANGED << exported, rdToVrf, vrfRules, dampeningInterval, routeProtocol,
                    pendingUpdates, stats, timers, kernel, nhRoutes, cfg, burst,
                    importVars, delivered, shutdown, conc >>

\* addRule (lines 248-252)
AddRule(rule) ==
    /\ Step
    /\ rules' = Append(rules, rule)
    /\ last' = [NoLast EXCEPT !.op = "addRule", !.rule = rule]
    /\ UNCHANGED << exported, rdToVrf, vrfRules, dampeningInterval, routeProtocol,
                    pendingUpdates, stats, timers, kernel, nhRoutes, cfg, burst,
                    importVars, delivered, shutdown, conc >>

\* buildVrfMappings over the VRF sections of a configuration; e.mu is held
\* from the first line to the return
BuildVrfMappings(vc, fail) ==
    LET s == buildVrfMappings(St0, vc, fail)
    IN  /\ Step
        /\ rdToVrf' = s.rdToVrf
        /\ vrfRules' = s.vrfRules
        /\ last' = Done([s EXCEPT !.op = "buildVrfMappings",
                                  !.before = [exported |-> exported, kernel |-> kernel,
                                              pendingUpdates |-> pendingUpdates]])
        /\ UNCHANGED << rules, exported, dampeningInterval, routeProtocol, pendingUpdates,
                        stats, timers, kernel, nhRoutes, cfg, burst,
                        importVars, delivered, shutdown, conc >>

\* the rules processUpdate and processVrfExport hand to exportRoute for a path
RulesFor(path) ==
    IF path.nlri.vpn
    THEN IF Has(rdToVrf, path.nlri.rd) /\ Has(vrfRules, rdToVrf[path.nlri.rd])
            /\ matchesVrfExportFilters(path, vrfRules[rdToVrf[path.nlri.rd]])
         THEN {VrfExportRule(rdToVrf[path.nlri.rd], vrfRules[rdToVrf[path.nlri.rd]])}
         ELSE {}
    ELSE {rules[i] : i \in {j \in 1..Len(rules) : matchesRule(path, rules[j])}}

\* goroutine g calls exportRoute(path, rule)
ExportRoute(g, path, rule) ==
    /\ Step
    /\ conc.go[g].pc = "idle"
    /\ ~path.IsWithdraw
    /\ rule \in RulesFor(path)
    /\ LET prefix == PlainPrefix(path)
           rep == last.op = "exportRoute" /\ last.path = path /\ last.rule = rule
                  /\ last.err = NoErr
           f == [Frame("exportRoute", "exportRoute") EXCEPT
                    !.path = path, !.rule = rule, !.vrf = rule.VrfName,
                    !.repeat = rep,
                    !.prevReplace = IF rep THEN CountCalls(last.calls, "RouteReplace") ELSE 0,
                    !.prevExported = IF rep THEN last.d["Exported"] ELSE 0,
                    !.wasTracked = Tracked(St0, rule.VrfName, prefix),
                    !.drift = /\ Tracked(St0, rule.VrfName, prefix)
                              /\ exported[rule.VrfName][prefix].RuleName = rule.Name
                              /\ SameParams(exported[rule.VrfName][prefix].Route, rule, path.nh)
                              /\ exported[rule.VrfName][prefix].Route \notin kernel]
       IN  Commit(g, resume(f))
    /\ UNCHANGED << pendingUpdates, timers, burst >>
    /\ engineFrame

\* a step of goroutine g inside exportRoute
ExportRouteStep(g, ok) ==
    /\ conc.go[g].pc \in ExportPcs
    /\ OkAt(g, ok)
    /\ Commit(g, resume(exportRouteStep(GSt(g), ok)))
    /\ UNCHANGED << pendingUpdates, timers, burst, nOps >>
    /\ engineFrame

\* goroutine g calls withdrawRoute(path, vrfName)
WithdrawRoute(g, path, vrfName) ==
    /\ Step
    /\ conc.go[g].pc = "idle"
    /\ path.IsWithdraw
    /\ Commit(g, resume([Frame("withdrawRoute", "withdrawRoute") EXCEPT
                            !.path = path, !.vrf = vrfName,
                            !.wasTracked = Tracked(St0, vrfName, PlainPrefix(path))]))
    /\ UNCHANGED << pendingUpdates, timers, burst >>
    /\ engineFrame

\* a step of goroutine g inside withdrawRoute
WithdrawRouteStep(g, ok) ==
    /\ conc.go[g].pc \in WithdrawPcs
    /\ OkAt(g, ok)
    /\ Commit(g, resume(withdrawRouteStep(GSt(g), ok)))
    /\ UNCHANGED << pendingUpdates, timers, burst, nOps >>
    /\ engineFrame

\* goroutine g calls processUpdate(path)
ProcessUpdate(g, path) ==
    /\ Step
    /\ conc.go[g].pc = "idle"
    /\ Commit(g, resume([Frame("processUpdate", "processUpdate") EXCEPT !.path = path]))
    /\ UNCHANGED << pendingUpdates, timers, burst >>
    /\ engineFrame

\* a step of goroutine g in processUpdate or processVrfExport, outside
\* exportRoute and withdrawRoute
ProcessUpdateStep(g, order) ==
    /\ conc.go[g].pc \in UpdatePcs
    /\ conc.go[g].pc = "processUpdateWithdrawals" \/ order = DefaultOrder.vrfs
    /\ Commit(g, resume(processUpdateStep(GSt(g), order)))
    /\ UNCHANGED << pendingUpdates, timers, burst, nOps >>
    /\ engineFrame

\* goroutine g calls scheduleUpdate(path): with interval 0 it goes on into
\* processUpdate (line 846); else the entry and the timer of the prefix are
\* replaced under dampenMu (850-878)
ScheduleUpdate(g, path) ==
    /\ Step
    /\ conc.go[g].pc = "idle"
    /\ delivered' = [delivered EXCEPT ![NlriString(path.nlri)] = path]
    /\ IF dampeningInterval = 0
       THEN /\ Commit(g, resume([Frame("scheduleUpdate", "processUpdate") EXCEPT
                                    !.path = path]))
            /\ UNCHANGED << pendingUpdates, timers, burst >>
       ELSE LET key == NlriString(path.nlri)
                d == [pendingUpdates |-> pendingUpdates, timers |-> timers, stats |-> stats]
                stopped == IF Has(pendingUpdates, key)
                           THEN StopTimer(timers, pendingUpdates[key].timer) ELSE timers
            IN  /\ Cardinality(stopped) < MaxTimers
                /\ LET r == scheduleDampened(d, path)
                   IN  /\ pendingUpdates' = r.pendingUpdates
                       /\ timers' = r.timers
                       /\ stats' = r.stats
                       /\ burst' = [burst EXCEPT ![key] =
                            IF Has(pendingUpdates, key)
                            THEN [n |-> @.n + 1,
                                  d |-> @.d + (r.stats["DampenedUpdates"] - stats["DampenedUpdates"]),
                                  ok |-> @.ok /\ \E t \in timers :
                                            t.id = pendingUpdates[key].timer /\ ~t.fired,
                                  lastPath |-> path]
                            ELSE [n |-> 1, d |-> 0, ok |-> TimersOf(timers, key) = {},
                                  lastPath |-> path]]
                       /\ last' = [NoLast EXCEPT !.op = "scheduleUpdate", !.path = path,
                                      !.d = [c \in StatNames |-> r.stats[c] - stats[c]]]
                /\ UNCHANGED << exported, kernel, conc >>
    /\ UNCHANGED << rules, rdToVrf, vrfRules, dampeningInterval, routeProtocol, nhRoutes, cfg,
                    importVars, shutdown >>

\* the dampening interval of an armed timer elapses: its callback is started
TimerFire(t) ==
    /\ Step
    /\ t \in timers
    /\ ~t.fired
    /\ timers' = (timers \ {t}) \cup {[t EXCEPT !.fired = TRUE]}
    /\ last' = [NoLast EXCEPT !.op = "timerFire", !.path = t.path]
    /\ UNCHANGED << rules, exported, rdToVrf, vrfRules, dampeningInterval, routeProtocol,
                    pendingUpdates, stats, kernel, nhRoutes, cfg, burst,
                    importVars, delivered, shutdown, conc >>

\* the callback of a fired timer runs in goroutine g: processDampenedUpdate
\* deletes the pending entry of the prefix under dampenMu (lines 834-836) and
\* goes on into processUpdate (839)
ProcessDampenedUpdate(g, t) ==
    /\ Step
    /\ conc.go[g].pc = "idle"
    /\ t \in timers
    /\ t.fired
    /\ LET key == NlriString(t.path.nlri)
       IN  /\ pendingUpdates' = Del(pendingUpdates, key)
           /\ timers' = timers \ {t}
           /\ burst' = [burst EXCEPT ![key] = NoBurst]
           /\ Commit(g, resume([Frame("processDampenedUpdate", "processUpdate") EXCEPT
                                   !.path = t.path, !.burst = burst[key]]))
    /\ engineFrame

\* a RIB enumeration lists current paths, none of them a withdrawal, each once
PathLists ==
    {l \in UNION {[1..n -> {p \in PathSet : ~p.IsWithdraw}] : n \in 0..MaxPathList} :
        \A i, j \in 1..Len(l) : l[i] = l[j] => i = j}

\* goroutine g calls reEvaluateAllRoutes(pathList)
ReEvaluateAllRoutes(g, pathList) ==
    /\ Step
    /\ conc.go[g].pc = "idle"
    /\ Commit(g, resume([Frame("reEvaluateAllRoutes", "reEvaluateAllRoutes") EXCEPT
                            !.pathList = pathList, !.todoPaths = pathList]))
    /\ UNCHANGED << pendingUpdates, timers, burst >>
    /\ engineFrame

\* a step of goroutine g in reEvaluateAllRoutes, outside exportRoute
ReEvaluateAllRoutesStep(g, ok, order) ==
    /\ conc.go[g].pc \in ReEvalPcs
    /\ OkAt(g, ok)
    /\ conc.go[g].pc = "reEvalList" \/ order = DefaultOrder
    /\ Commit(g, resume(reEvaluateAllRoutesStep(GSt(g), ok, order)))
    /\ UNCHANGED << pendingUpdates, timers, burst, nOps >>
    /\ engineFrame

\* goroutine g calls flush()
Flush(g) ==
    /\ Step
    /\ conc.go[g].pc = "idle"
    /\ Commit(g, resume(Frame("flush", "flush")))
    /\ UNCHANGED << pendingUpdates, timers, burst >>
    /\ engineFrame

\* a step of goroutine g in flush
FlushStep(g, ok, order) ==
    /\ conc.go[g].pc \in FlushPcs
    /\ OkAt(g, ok)
    /\ conc.go[g].pc = "flush" \/ order = DefaultOrder
    /\ Commit(g, resume(flushStep(GSt(g), ok, order)))
    /\ UNCHANGED << pendingUpdates, timers, burst, nOps >>
    /\ engineFrame

\* the environment: a route of the engine is deleted from the kernel out-of-band
KernelRouteDeleted(r) ==
    /\ Step
    /\ r \in kernel
    /\ kernel' = kernel \ {r}
    /\ last' = [NoLast EXCEPT !.op = "kernelRouteDeleted"]
    /\ UNCHANGED << rules, exported, rdToVrf, vrfRules, dampeningInterval, routeProtocol,
                    pendingUpdates, stats, timers, nhRoutes, cfg, burst,
                    importVars, delivered, shutdown, conc >>

\* the environment: the kernel's routes towards a nexthop change
NexthopRoutesChange(nh, ts) ==
    /\ Step
    /\ nhRoutes[nh] # ts
    /\ nhRoutes' = [nhRoutes EXCEPT ![nh] = ts]
    /\ last' = [NoLast EXCEPT !.op = "nexthopRoutesChange"]
    /\ UNCHANGED << rules, exported, rdToVrf, vrfRules, dampeningInterval, routeProtocol,
                    pendingUpdates, stats, timers, kernel, cfg, burst,
                    importVars, delivered, shutdown, conc >>

\* newNetlinkExportClient(server, logger, cfg.routeProtocol, cfg.dampeningInterval);
\* handleOk: go_netlink.NewHandle succeeds. No other goroutine has the engine
\* before the constructor returns.
NewNetlinkExportClient(handleOk, fail) ==
    /\ Step
    /\ last.op = "none"
    /\ IF ~handleOk
       THEN /\ last' = [NoLast EXCEPT !.op = "newNetlinkExportClient",
                                      !.err = "failed to create netlink handle"]
            /\ UNCHANGED << routeProtocol, dampeningInterval, kernel >>
       ELSE LET proto == newRouteProtocol(cfg.routeProtocol)
                s == cleanupStaleRoutes(St0, proto, fail)
            IN  /\ routeProtocol' = proto
                /\ dampeningInterval' = newDampeningInterval(cfg.dampeningInterval)
                /\ kernel' = s.kernel
                /\ last' = Done([s EXCEPT !.op = "newNetlinkExportClient",
                                          !.before = [exported |-> exported, kernel |-> kernel,
                                                      pendingUpdates |-> pendingUpdates]])
    /\ UNCHANGED << rules, exported, rdToVrf, vrfRules, pendingUpdates, stats, timers,
                    nhRoutes, cfg, burst, importVars, delivered, shutdown, conc >>

\* one evaluation matchesRule(path, rule)
MatchesRule(path, rule) ==
    /\ Step
    /\ last' = [NoLast EXCEPT !.op = "matchesRule", !.path = path, !.rule = rule,
                              !.result = matchesRule(path, rule)]
    /\ UNCHANGED << rules, exported, rdToVrf, vrfRules, dampeningInterval, routeProtocol,
                    pendingUpdates, stats, timers, kernel, nhRoutes, cfg, burst,
                    importVars, delivered, shutdown, conc >>

\* --------------------------------------------------------------- the import
importFrame ==
    UNCHANGED << rules, exported, rdToVrf, vrfRules, dampeningInterval, routeProtocol,
                 pendingUpdates, stats, timers, kernel, nhRoutes, cfg, burst, ifAddrs,
                 importCfg, delivered, shutdown >>

\* goroutine g has made a step of runImport that led to s
ImportCommit(g, s) ==
    /\ Alive
    /\ advertisedPaths' = s.advertisedPaths
    /\ importStats' = s.stats
    /\ rib' = s.rib
    /\ IF s.pc = "done"
       THEN /\ last' = ImportDone(s)
            /\ conc' = [conc EXCEPT !.scan =
                          [h \in Scanners |->
                             IF h = g \/ conc.scan[h].pc = "idle" THEN ScanIdle
                             ELSE [conc.scan[h] EXCEPT !.overlap =
                                      Append(@, [added |-> s.added,
                                                 withdrawn |-> s.withdrawn])]]]
       ELSE /\ last' = Busy
            /\ conc' = [conc EXCEPT !.scan[g] = ImportStrip(s)]

\* goroutine g enters runImport: the tick of loop() (273), or a call of
\* rescan() (260)
RunImportCall(g) ==
    /\ conc.scan[g].pc = "idle"
    /\ ImportCommit(g, importResume(runImport(
           [ImSt(g) EXCEPT !.pc = "runImport",
                           !.prevClean = (last.op = "runImport" /\ ScansClean(last.scans))])))
    /\ importFrame

RunImport(g) ==
    /\ nOps < MaxImportOps
    /\ nOps' = nOps + 1
    /\ RunImportCall(g)

\* the outcome and the orders matter at the steps that call or range
ImportChoice(g, ok, order) ==
    /\ ok \/ conc.scan[g].pc \in ImportCallPcs
    /\ conc.scan[g].pc = "runImportRange" \/ order.vrfs = ImportOrder0.vrfs
    /\ conc.scan[g].pc = "importDiffNew" \/ order.keys = ImportOrder0.keys

\* a step of goroutine g inside runImport: one access to the state the
\* goroutines share; ok is the outcome of its lookup or submission, order
\* the orders of the ranges over globalRib.Vrfs and over currentPaths
RunImportStep(g, ok, order) ==
    /\ conc.scan[g].pc \notin {"idle", "runImport"}
    /\ ImportChoice(g, ok, order)
    /\ ImportCommit(g, importResume(runImportStep(ImSt(g), ok, order)))
    /\ UNCHANGED nOps
    /\ importFrame

\* Two goroutines are about to access the map n.advertisedPaths, one of them
\* to write it (138, 207), and no lock orders the accesses: the runtime may
\* detect the concurrent access and abort the process ("concurrent map
\* writes", "concurrent map read and map write"). Otherwise the accesses
\* take effect one after the other, as steps of RunImportStep.
ImportFatal(g, h) ==
    /\ Alive
    /\ g # h
    /\ conc.scan[g].pc \in ImportWritePcs
    /\ conc.scan[h].pc \in ImportMapPcs
    /\ shutdown' = [shutdown EXCEPT !.fatal = TRUE]
    /\ last' = [NoLast EXCEPT !.op = "fatal"]
    /\ UNCHANGED << rules, exported, rdToVrf, vrfRules, dampeningInterval, routeProtocol,
                    pendingUpdates, stats, timers, kernel, nhRoutes, cfg, burst, nOps,
                    importVars, delivered, conc >>

\* the host's administrator changes the addresses of an interface
AddrChange(iface, addrs) ==
    /\ nOps < MaxImportOps
    /\ nOps' = nOps + 1
    /\ addrs # ifAddrs[iface]
    /\ ifAddrs' = [ifAddrs EXCEPT ![iface] = addrs]
    /\ last' = [NoLast EXCEPT !.op = "addrChange"]
    /\ UNCHANGED << rules, exported, rdToVrf, vrfRules, dampeningInterval, routeProtocol,
                    pendingUpdates, stats, timers, kernel, nhRoutes, cfg, burst,
                    advertisedPaths, importStats, rib, importCfg, delivered,
                    shutdown, conc >>

\* the configuration of the server or the VRFs of its RIB change: a reload,
\* a VRF is added or deleted
ImportConfigChange(icfg) ==
    /\ nOps < MaxImportOps
    /\ nOps' = nOps + 1
    /\ icfg # importCfg
    /\ importCfg' = icfg
    /\ last' = [NoLast EXCEPT !.op = "importConfigChange"]
    /\ UNCHANGED << rules, exported, rdToVrf, vrfRules, dampeningInterval, routeProtocol,
                    pendingUpdates, stats, timers, kernel, nhRoutes, cfg, burst,
                    advertisedPaths, importStats, rib, ifAddrs, delivered,
                    shutdown, conc >>

\* the loop goroutine with a ticker that fires without end: runImport is
\* entered, or the run makes a step. The scans are not counted; a lookup or
\* a submission that fails counts as an operation of the behaviour.
ImportTick ==
    IF conc.scan["loop"].pc = "idle"
    THEN RunImportCall("loop") /\ UNCHANGED nOps
    ELSE /\ \E ok \in BOOLEAN, order \in ImportOrders :
               /\ ImportChoice("loop", ok, order)
               /\ ok \/ nOps < MaxImportOps
               /\ nOps' = IF ok THEN nOps ELSE nOps + 1
               /\ ImportCommit("loop", importResume(runImportStep(ImSt("loop"), ok, order)))
         /\ importFrame

\* ------------------------------------------------ goroutines and locks
lockFrame ==
    UNCHANGED << rules, exported, rdToVrf, vrfRules, dampeningInterval, routeProtocol,
                 pendingUpdates, stats, timers, kernel, nhRoutes, cfg, last, burst, nOps,
                 importVars, delivered, shutdown >>

Mutex(m) == conc.locks[m]
NextInstr(t) == Head(conc.thr[t].prog)

\* goroutine t has finished the instruction at the head of its program
Advance(c, t) ==
    [c EXCEPT !.thr[t] = IF Tail(c.thr[t].prog) = << >> THEN ThreadIdle
                         ELSE [c.thr[t] EXCEPT !.prog = Tail(@)]]

\* a goroutine enters an operation of the engine
OpStart(t, op, prog) ==
    /\ Alive
    /\ conc.thr[t] = ThreadIdle
    /\ prog \in LockProgram(op)
    /\ conc' = [conc EXCEPT !.thr[t] = [prog |-> prog]]
    /\ lockFrame

\* m.Lock() is called: the goroutine waits for the mutex
LockRequest(t) ==
    /\ Alive
    /\ conc.thr[t] # ThreadIdle
    /\ NextInstr(t)[1] = "Lock"
    /\ t \notin Mutex(NextInstr(t)[2]).pending
    /\ conc' = [conc EXCEPT !.locks[NextInstr(t)[2]].pending = @ \cup {t}]
    /\ lockFrame

\* m.Lock() returns: nobody holds the mutex
LockAcquire(t) ==
    /\ Alive
    /\ conc.thr[t] # ThreadIdle
    /\ NextInstr(t)[1] = "Lock"
    /\ LET m == NextInstr(t)[2]
       IN  /\ t \in Mutex(m).pending
           /\ Mutex(m).writer = ""
           /\ Mutex(m).readers = {}
           /\ conc' = Advance([conc EXCEPT !.locks[m].pending = @ \ {t},
                                          !.locks[m].writer = t], t)
    /\ lockFrame

\* m.RLock() returns: no writer holds the mutex or waits for it
RLockAcquire(t) ==
    /\ Alive
    /\ conc.thr[t] # ThreadIdle
    /\ NextInstr(t)[1] = "RLock"
    /\ LET m == NextInstr(t)[2]
       IN  /\ Mutex(m).writer = ""
           /\ Mutex(m).pending = {}
           /\ conc' = Advance([conc EXCEPT !.locks[m].readers = @ \cup {t}], t)
    /\ lockFrame

\* m.Unlock() and m.RUnlock()
LockRelease(t) ==
    /\ Alive
    /\ conc.thr[t] # ThreadIdle
    /\ NextInstr(t)[1] \in {"Unlock", "RUnlock"}
    /\ LET m == NextInstr(t)[2]
       IN  conc' = Advance(IF NextInstr(t)[1] = "Unlock"
                           THEN [conc EXCEPT !.locks[m].writer = ""]
                           ELSE [conc EXCEPT !.locks[m].readers = @ \ {t}], t)
    /\ lockFrame

\* close() of the export engine: e.stopCh is closed, the wait group is empty,
\* the netlink handle is closed; pendingUpdates and the timers are not touched
Close ==
    /\ Step
    /\ ~shutdown.stopCh
    /\ shutdown' = [shutdown EXCEPT !.stopCh = TRUE]
    /\ last' = [NoLast EXCEPT !.op = "close"]
    /\ UNCHANGED << rules, exported, rdToVrf, vrfRules, dampeningInterval, routeProtocol,
                    pendingUpdates, stats, timers, kernel, nhRoutes, cfg, burst,
                    importVars, delivered, conc >>

\* the server closes n.dead of the import engine
CloseDead ==
    /\ Step
    /\ ~shutdown.dead
    /\ shutdown' = [shutdown EXCEPT !.dead = TRUE]
    /\ last' = [NoLast EXCEPT !.op = "closeDead"]
    /\ UNCHANGED << rules, exported, rdToVrf, vrfRules, dampeningInterval, routeProtocol,
                    pendingUpdates, stats, timers, kernel, nhRoutes, cfg, burst,
                    importVars, delivered, conc >>

\* loop(): the select takes the ticker's case and runs a scan (272-273)
LoopTick ==
    /\ shutdown.loop = "select"
    /\ RunImport("loop")

\* loop(): the select takes the case of n.dead and the loop returns
LoopExit ==
    /\ Step
    /\ shutdown.loop = "select"
    /\ conc.scan["loop"].pc = "idle"
    /\ shutdown.dead
    /\ shutdown' = [shutdown EXCEPT !.loop = "exited"]
    /\ last' = [NoLast EXCEPT !.op = "loopExit"]
    /\ UNCHANGED << rules, exported, rdToVrf, vrfRules, dampeningInterval, routeProtocol,
                    pendingUpdates, stats, timers, kernel, nhRoutes, cfg, burst,
                    importVars, delivered, conc >>

\* one call AddRoute(route) of the NetlinkClient; ok says whether the
\* manager's RouteAdd succeeds
AddRouteCall(route, ok) ==
    /\ Step
    /\ LET r == AddRoute(kernel, route, ok)
       IN  /\ kernel' = r.kernel
           /\ last' = [NoLast EXCEPT !.op = "AddRoute", !.old = route,
                                     !.err = IF r.err THEN "RouteAdd failed" ELSE NoErr]
    /\ UNCHANGED << rules, exported, rdToVrf, vrfRules, dampeningInterval, routeProtocol,
                    pendingUpdates, stats, timers, nhRoutes, cfg, burst,
                    importVars, delivered, shutdown, conc >>

\* one call GetConnectedRoutes(interfaceName) of the NetlinkClient
GetConnectedRoutesCall(routes, linkOk, listOk) ==
    /\ Step
    /\ UNCHANGED << importVars, delivered, shutdown, conc >>
    /\ last' = [NoLast EXCEPT !.op = "GetConnectedRoutes", !.routes = routes,
                              !.linkOk = linkOk, !.listOk = listOk,
                              !.connected = GetConnectedRoutes(routes, linkOk, listOk)]
    /\ UNCHANGED << rules, exported, rdToVrf, vrfRules, dampeningInterval, routeProtocol,
                    pendingUpdates, stats, timers, kernel, nhRoutes, cfg, burst >>

\* the constructor has returned an engine
Started == last.op # "none" /\ ~(last.op = "newNetlinkExportClient" /\ last.err # NoErr)

\* ============================================================ specifications
\* every operation of both engines, in two goroutines each, and the environment
Next ==
    \/ \E rl \in RuleLists : SetRules(rl)
    \/ \E rl \in RuleLists : \E i \in 1..Len(rl) : AddRule(rl[i])
    \/ \E vc \in VrfConfigs, fail \in FailSets : BuildVrfMappings(vc, fail)
    \/ \E g \in Goroutines, path \in PathSet : \E rule \in RulesFor(path) :
          ExportRoute(g, path, rule)
    \/ \E g \in Goroutines, ok \in BOOLEAN : ExportRouteStep(g, ok)
    \/ \E g \in Goroutines, path \in PathSet, vrfName \in VrfNames :
          WithdrawRoute(g, path, vrfName)
    \/ \E g \in Goroutines, ok \in BOOLEAN : WithdrawRouteStep(g, ok)
    \/ \E g \in Goroutines, path \in PathSet : ProcessUpdate(g, path)
    \/ \E g \in Goroutines, order \in VrfOrders : ProcessUpdateStep(g, order)
    \/ \E g \in Goroutines, path \in PathSet : ScheduleUpdate(g, path)
    \/ \E t \in timers : TimerFire(t)
    \/ \E g \in Goroutines, t \in timers : ProcessDampenedUpdate(g, t)
    \/ \E g \in Goroutines, pathList \in PathLists : ReEvaluateAllRoutes(g, pathList)
    \/ \E g \in Goroutines, ok \in BOOLEAN, order \in RangeOrders :
          ReEvaluateAllRoutesStep(g, ok, order)
    \/ \E g \in Goroutines : Flush(g)
    \/ \E g \in Goroutines, ok \in BOOLEAN, order \in RangeOrders : FlushStep(g, ok, order)
    \/ Close
    \/ \E r \in kernel : KernelRouteDeleted(r)
    \/ \E nh \in Nexthops, ts \in NhTableSets : NexthopRoutesChange(nh, ts)
    \/ LoopTick
    \/ RunImport("rescan")
    \/ \E g \in Scanners, ok \in BOOLEAN, order \in ImportOrders : RunImportStep(g, ok, order)
    \/ \E g \in Scanners, h \in Scanners : ImportFatal(g, h)
    \/ \E route \in AddRoutes, ok \in BOOLEAN : AddRouteCall(route, ok)
    \/ \E routes \in RouteLists, linkOk \in BOOLEAN, listOk \in BOOLEAN :
          GetConnectedRoutesCall(routes, linkOk, listOk)
    \/ CloseDead
    \/ LoopExit
    \/ \E icfg \in ImportConfigs : ImportConfigChange(icfg)
    \/ \E a \in SUBSET Eth0Addrs : AddrChange("eth0", a)
    \/ \E a \in SUBSET Eth1Addrs : AddrChange("eth1", a)

Spec == Init /\ [][Next]_vars

\* The specifications below take a part of the operations each. Where one
\* goroutine is named and the calls are guarded by Quiet, an operation runs
\* from its call to its return before the next one is called and before the
\* environment changes anything.

\* the export path alone: one call at a time of exportRoute, withdrawRoute and
\* processUpdate, rule and VRF configuration changes, and the environment
InitExport == Init /\ cfg = [routeProtocol |-> 0, dampeningInterval |-> 100]

NextExport ==
    \/ \E rl \in RuleLists : Quiet /\ SetRules(rl)
    \/ \E vc \in VrfConfigs, fail \in FailSets : Quiet /\ BuildVrfMappings(vc, fail)
    \/ \E path \in PathSet : \E rule \in RulesFor(path) : ExportRoute("g1", path, rule)
    \/ \E ok \in BOOLEAN : ExportRouteStep("g1", ok)
    \/ \E path \in PathSet, vrfName \in VrfNames : WithdrawRoute("g1", path, vrfName)
    \/ \E ok \in BOOLEAN : WithdrawRouteStep("g1", ok)
    \/ \E path \in PathSet : ProcessUpdate("g1", path)
    \/ \E order \in VrfOrders : ProcessUpdateStep("g1", order)
    \/ \E r \in kernel : Quiet /\ KernelRouteDeleted(r)
    \/ \E ts \in NhTableSets : Quiet /\ NexthopRoutesChange(NhA, ts)

SpecExport == InitExport /\ [][NextExport]_vars

\* the dampener alone: updates are scheduled, timers fire, callbacks run.
\* Within MaxOps operations no second update of a prefix leaves the dampener,
\* so that no callback comes to withdraw a tracked route.
InitDampen == Init /\ cfg.routeProtocol = 0

NextDampen ==
    \/ \E rl \in RuleLists : Quiet /\ SetRules(rl)
    \/ \E path \in PathSet : ScheduleUpdate("g1", path)
    \/ \E t \in timers : Quiet /\ TimerFire(t)
    \/ \E t \in timers : ProcessDampenedUpdate("g1", t)
    \/ \E ok \in BOOLEAN : ExportRouteStep("g1", ok)
    \/ \E order \in VrfOrders : ProcessUpdateStep("g1", order)

SpecDampen == InitDampen /\ [][NextDampen]_vars

\* reconfiguration: rules and VRF mappings are replaced, updates are
\* processed, the RIB is re-evaluated; the kernel adapter does not fail, so
\* that the order of the ranges over e.exported makes no difference
InitReconf == Init /\ cfg = [routeProtocol |-> 0, dampeningInterval |-> 100]

NextReconf ==
    \/ \E rl \in RuleLists : Quiet /\ SetRules(rl)
    \/ \E vc \in VrfConfigs : Quiet /\ BuildVrfMappings(vc, {})
    \/ \E path \in PathSet : ProcessUpdate("g1", path)
    \/ ProcessUpdateStep("g1", DefaultOrder.vrfs)
    \/ ExportRouteStep("g1", TRUE)
    \/ WithdrawRouteStep("g1", TRUE)
    \/ \E pathList \in PathLists : ReEvaluateAllRoutes("g1", pathList)
    \/ \E order \in RangeOrders : ReEvaluateAllRoutesStep("g1", TRUE, order)

SpecReconf == InitReconf /\ [][NextReconf]_vars

\* startup: the kernel holds routes of an earlier run and of other daemons,
\* the engine is constructed, then rules are set and updates processed
StaleRoute(tbl, proto) ==
    [Dst |-> <<"", P2>>, Gw |-> NhA, Table |-> tbl, Priority |-> 20, Protocol |-> proto,
     Flags |-> 0, LinkIndex |-> 0]

StaleRoutes == { StaleRoute(0, RTPROT_BGP), StaleRoute(100, RTPROT_BGP),
                 StaleRoute(200, RTPROT_BGP), StaleRoute(0, 11) }

\* a rule that exports into a table of its own, without a VRF device
CustomTableRuleLists == { << MkRule("t", {}, {}, "", 200, 20, FALSE) >> }

InitStartup ==
    /\ cfg \in [routeProtocol : {0, 11}, dampeningInterval : {100}]
    /\ routeProtocol = 0
    /\ dampeningInterval = 0
    /\ rules = << >>
    /\ exported = EmptyMap
    /\ rdToVrf = EmptyMap
    /\ vrfRules = EmptyMap
    /\ pendingUpdates = EmptyMap
    /\ stats = [c \in StatNames |-> 0]
    /\ timers = {}
    /\ kernel \in SUBSET StaleRoutes
    /\ nhRoutes = [nh \in Nexthops |-> NhMain]
    /\ last = NoLast
    /\ burst = [k \in PendingKeys |-> NoBurst]
    /\ nOps = 0
    /\ ifAddrs = NoAddrs
    /\ ImportInit
    /\ delivered = [k \in PendingKeys |-> NoPath]
    /\ shutdown = Running
    /\ conc = ConcIdle

NextStartup ==
    \/ \E handleOk \in BOOLEAN, fail \in FailSets : NewNetlinkExportClient(handleOk, fail)
    \/ \E rl \in RuleLists \cup CustomTableRuleLists : Started /\ Quiet /\ SetRules(rl)
    \/ \E path \in PathSet : Started /\ ProcessUpdate("g1", path)
    \/ ProcessUpdateStep("g1", DefaultOrder.vrfs)
    \/ ExportRouteStep("g1", TRUE)
    \/ WithdrawRouteStep("g1", TRUE)

SpecStartup == InitStartup /\ [][NextStartup]_vars

\* community matching alone: paths and rules over every combination of two
\* standard and two large communities
MatchPaths ==
    {MkPath(UNlri(P1), wd, NhA, cs, ls) :
        wd \in BOOLEAN, cs \in SUBSET {C100, C200}, ls \in SUBSET {L1, L2}}

MatchRules ==
    {MkRule("m", cs, ls, "", 0, 20, TRUE) : cs \in SUBSET {C100, C200}, ls \in SUBSET {L1, L2}}

InitMatch == Init /\ cfg = [routeProtocol |-> 0, dampeningInterval |-> 100]

NextMatch == \E path \in MatchPaths, rule \in MatchRules : MatchesRule(path, rule)

SpecMatch == InitMatch /\ [][NextMatch]_vars

\* the engine's operations with a failing kernel adapter and no change to the
\* kernel from outside: rules are set, updates processed, the RIB is
\* re-evaluated, the engine is flushed
\* two rules of the global VRF that differ in their table
MultiRuleLists ==
    { << MkRule("a", {}, {}, "", 0, 20, TRUE), MkRule("b", {}, {}, "", 100, 20, FALSE) >> }

\* two rules of different VRF names that name the same table and metric
SharedTableRuleLists ==
    { << MkRule("x", {}, {}, "", 100, 20, TRUE), MkRule("y", {}, {}, "red", 100, 20, TRUE) >> }

OpsRuleLists == RuleLists \cup MultiRuleLists \cup SharedTableRuleLists

\* updates and enumerations for one prefix: two paths and the withdrawal
OpsPaths == {p \in PathSet : ~p.nlri.vpn /\ p.nlri.pfx = P1}

OpsPathLists == {l \in PathLists : \A i \in 1..Len(l) : l[i] \in OpsPaths}

\* RouteGet finds the nexthops through the main table or through table 100
InitOps ==
    /\ cfg = [routeProtocol |-> 0, dampeningInterval |-> 100]
    /\ routeProtocol = newRouteProtocol(cfg.routeProtocol)
    /\ dampeningInterval = newDampeningInterval(cfg.dampeningInterval)
    /\ rules = << >>
    /\ exported = EmptyMap
    /\ rdToVrf = EmptyMap
    /\ vrfRules = EmptyMap
    /\ pendingUpdates = EmptyMap
    /\ stats = [c \in StatNames |-> 0]
    /\ timers = {}
    /\ kernel = {}
    /\ nhRoutes \in {[nh \in Nexthops |-> ts] : ts \in NhTableSets \ {{}}}
    /\ last = NoLast
    /\ burst = [k \in PendingKeys |-> NoBurst]
    /\ nOps = 0
    /\ ifAddrs = NoAddrs
    /\ ImportInit
    /\ delivered = [k \in PendingKeys |-> NoPath]
    /\ shutdown = Running
    /\ conc = ConcIdle

NextOps ==
    \/ \E rl \in OpsRuleLists : Quiet /\ SetRules(rl)
    \/ \E path \in OpsPaths : ProcessUpdate("g1", path)
    \/ \E order \in VrfOrders : ProcessUpdateStep("g1", order)
    \/ \E ok \in BOOLEAN : ExportRouteStep("g1", ok)
    \/ \E ok \in BOOLEAN : WithdrawRouteStep("g1", ok)
    \/ \E pathList \in OpsPathLists : ReEvaluateAllRoutes("g1", pathList)
    \/ \E ok \in BOOLEAN, order \in RangeOrders : ReEvaluateAllRoutesStep("g1", ok, order)
    \/ Flush("g1")
    \/ \E ok \in BOOLEAN, order \in RangeOrders : FlushStep("g1", ok, order)

SpecOps == InitOps /\ [][NextOps]_vars

\* the import engine alone, after its constructor has returned: scans of the
\* loop goroutine, one at a time, and address changes between them
\* the addresses the interfaces have when the engine is constructed
InitAddrSets == { a \in IfAddrSets : a["eth0"] \subseteq {AddrA} /\ a["eth1"] \subseteq {AddrA} }

InitImportWith(icfg) ==
    /\ cfg = [routeProtocol |-> 0, dampeningInterval |-> 100]
    /\ routeProtocol = newRouteProtocol(cfg.routeProtocol)
    /\ dampeningInterval = newDampeningInterval(cfg.dampeningInterval)
    /\ rules = << >>
    /\ exported = EmptyMap
    /\ rdToVrf = EmptyMap
    /\ vrfRules = EmptyMap
    /\ pendingUpdates = EmptyMap
    /\ stats = [c \in StatNames |-> 0]
    /\ timers = {}
    /\ kernel = {}
    /\ nhRoutes = [nh \in Nexthops |-> NhMain]
    /\ burst = [k \in PendingKeys |-> NoBurst]
    /\ nOps = 0
    /\ ifAddrs \in InitAddrSets
    /\ importCfg = icfg
    /\ \E fail \in ImportFailSets, order \in ImportOrders :
          LET im == newNetlinkClient(importCfg, ifAddrs, fail, order)
          IN  /\ advertisedPaths = im.advertisedPaths
              /\ importStats = im.stats
              /\ rib = im.rib
              /\ last = ImportDone(im)
    /\ delivered = [k \in PendingKeys |-> NoPath]
    /\ shutdown = Running
    /\ conc = ConcIdle

InitImport == InitImportWith(ImportCfg0)

NextImport ==
    \/ RunImport("loop")
    \/ \E ok \in BOOLEAN, order \in ImportOrders : RunImportStep("loop", ok, order)
    \/ \E a \in SUBSET Eth0Addrs : Quiet /\ AddrChange("eth0", a)
    \/ \E a \in SUBSET Eth1Addrs : Quiet /\ AddrChange("eth1", a)

SpecImport == InitImport /\ [][NextImport]_vars

\* a re-evaluation in one goroutine and the processing of updates of one
\* prefix in another; the rule is set first, before either begins
AtomicRules == << MkRule("g", {}, {}, "", 0, 20, TRUE) >>

InitAtomic ==
    /\ Init
    /\ cfg = [routeProtocol |-> 0, dampeningInterval |-> 100]

AtomicPaths == {p \in PathSet : ~p.nlri.vpn /\ p.nlri.pfx = P1}

AtomicPathLists == {l \in PathLists : \A i \in 1..Len(l) : l[i] \in AtomicPaths}

NextAtomic ==
    \/ Quiet /\ rules = << >> /\ SetRules(AtomicRules)
    \/ \E pathList \in AtomicPathLists : rules # << >> /\ ReEvaluateAllRoutes("g1", pathList)
    \/ \E order \in RangeOrders : ReEvaluateAllRoutesStep("g1", TRUE, order)
    \/ \E path \in AtomicPaths : rules # << >> /\ ProcessUpdate("g2", path)
    \/ ProcessUpdateStep("g2", DefaultOrder.vrfs)
    \/ \E g \in Goroutines : ExportRouteStep(g, TRUE)
    \/ WithdrawRouteStep("g2", TRUE)

SpecAtomic == InitAtomic /\ [][NextAtomic]_vars

\* the order of the updates of one prefix through the dampener. The engine
\* has its rule, scheduleUpdate has been called with an announcement of P1,
\* and the dampening interval of its timer is running or has elapsed.
OrderRules == << MkRule("g", {}, {}, "", 0, 20, TRUE) >>

OrderAnnounce == MkPath(UNlri(P1), FALSE, NhA, {C100}, {})

OrderPaths == {p \in PathSet : ~p.nlri.vpn /\ p.nlri.pfx = P1}

InitOrder ==
    /\ cfg = [routeProtocol |-> 0, dampeningInterval |-> 100]
    /\ routeProtocol = newRouteProtocol(cfg.routeProtocol)
    /\ dampeningInterval = newDampeningInterval(cfg.dampeningInterval)
    /\ rules = OrderRules
    /\ exported = EmptyMap
    /\ rdToVrf = EmptyMap
    /\ vrfRules = EmptyMap
    /\ stats = [c \in StatNames |-> 0]
    /\ \E fired \in BOOLEAN :
          LET d == scheduleDampened([pendingUpdates |-> EmptyMap, timers |-> {},
                                     stats |-> stats], OrderAnnounce)
          IN  /\ pendingUpdates = d.pendingUpdates
              /\ timers = { [t EXCEPT !.fired = fired] : t \in d.timers }
    /\ kernel = {}
    /\ nhRoutes = [nh \in Nexthops |-> NhMain]
    /\ last = NoLast
    /\ burst = [k \in PendingKeys |->
                  IF k = NlriString(OrderAnnounce.nlri)
                  THEN [n |-> 1, d |-> 0, ok |-> TRUE, lastPath |-> OrderAnnounce]
                  ELSE NoBurst]
    /\ nOps = 0
    /\ ifAddrs = NoAddrs
    /\ ImportInit
    /\ delivered = [k \in PendingKeys |->
                      IF k = NlriString(OrderAnnounce.nlri) THEN OrderAnnounce ELSE NoPath]
    /\ shutdown = Running
    /\ conc = ConcIdle

NextOrder ==
    \/ \E path \in OrderPaths : ScheduleUpdate("g1", path)
    \/ \E t \in timers : Quiet /\ TimerFire(t)
    \/ \E t \in timers : ProcessDampenedUpdate("g1", t)
    \/ ProcessUpdateStep("g1", DefaultOrder.vrfs)
    \/ ExportRouteStep("g1", TRUE)
    \/ WithdrawRouteStep("g1", TRUE)

SpecOrder == InitOrder /\ [][NextOrder]_vars

\* nexthop validation: rules that validate against the main table and against
\* table 100, a rule that does not validate; the routes to the nexthops change
NexthopRuleLists ==
    { << MkRule("v0", {}, {}, "", 0, 20, TRUE),
         MkRule("v100", {}, {}, "red", 100, 20, TRUE),
         MkRule("n", {}, {}, "", 100, 30, FALSE) >> }

InitNexthop == Init /\ cfg = [routeProtocol |-> 0, dampeningInterval |-> 100]

NextNexthop ==
    \/ \E rl \in NexthopRuleLists : Quiet /\ SetRules(rl)
    \/ \E path \in PathSet : \E rule \in RulesFor(path) : ExportRoute("g1", path, rule)
    \/ \E ok \in BOOLEAN : ExportRouteStep("g1", ok)
    \/ \E nh \in Nexthops, ts \in NhTableSets : Quiet /\ NexthopRoutesChange(nh, ts)

SpecNexthop == InitNexthop /\ [][NextNexthop]_vars

\* shutdown: an update is pending in the dampener when the export engine is
\* closed; the import loop ticks until it takes the case of n.dead. Updates
\* are delivered only while the export engine is open.
NextShutdown ==
    \/ \E path \in OrderPaths : ~shutdown.stopCh /\ Quiet /\ ScheduleUpdate("g1", path)
    \/ \E t \in timers : Quiet /\ TimerFire(t)
    \/ \E t \in timers : Quiet /\ ProcessDampenedUpdate("g1", t)
    \/ ProcessUpdateStep("g1", DefaultOrder.vrfs)
    \/ \E ok \in BOOLEAN : ExportRouteStep("g1", ok)
    \/ \E ok \in BOOLEAN : WithdrawRouteStep("g1", ok)
    \/ Quiet /\ Close
    \/ Quiet /\ CloseDead
    \/ Quiet /\ LoopTick
    \/ \E ok \in BOOLEAN, order \in ImportOrders : RunImportStep("loop", ok, order)
    \/ Quiet /\ LoopExit

SpecShutdown == InitOrder /\ [][NextShutdown]_vars

\* GetConnectedRoutes and AddRoute alone
InitConnected == Init /\ cfg = [routeProtocol |-> 0, dampeningInterval |-> 100]

NextConnected ==
    \/ \E routes \in RouteLists, linkOk \in BOOLEAN, listOk \in BOOLEAN :
          GetConnectedRoutesCall(routes, linkOk, listOk)
    \/ \E route \in AddRoutes, ok \in BOOLEAN : AddRouteCall(route, ok)

SpecConnected == InitConnected /\ [][NextConnected]_vars

\* per-VRF export: VPN paths under export bindings with and without filters;
\* VRF blue of the BGP configuration is bound to the Linux VRF device red
VrfExportConfigs ==
    { << MkVrf("red", RD1, TRUE, "", 0, 50, "false", {}, {}) >>,
      << MkVrf("red", RD1, TRUE, "red", 100, 50, "nil", {C200}, {}) >>,
      << MkVrf("red", RD1, TRUE, "red", 100, 60, "true", {C100}, {L1}) >>,
      << MkVrf("blue", RD1, TRUE, "red", 100, 50, "nil", {}, {L2}) >>,
      << MkVrf("red", RD1, FALSE, "", 0, 0, "nil", {}, {}) >> }

VpnPaths ==
    { MkPath(VNlri(RD1, P1), FALSE, NhB, {C100}, {}),
      MkPath(VNlri(RD1, P1), FALSE, NhB, {}, {L2}),
      MkPath(VNlri(RD1, P1), FALSE, NhA, {}, {}),
      MkPath(VNlri(RD1, P1), TRUE,  NhB, {C100}, {}) }

InitVrfExport == Init /\ cfg = [routeProtocol |-> 0, dampeningInterval |-> 100]

NextVrfExport ==
    \/ \E vc \in VrfExportConfigs, fail \in FailSets : Quiet /\ BuildVrfMappings(vc, fail)
    \/ \E path \in VpnPaths : ProcessUpdate("g1", path)
    \/ \E order \in VrfOrders : ProcessUpdateStep("g1", order)
    \/ \E ok \in BOOLEAN : ExportRouteStep("g1", ok)
    \/ \E ok \in BOOLEAN : WithdrawRouteStep("g1", ok)
    \/ \E nh \in {NhA, NhB}, ts \in NhTableSets : Quiet /\ NexthopRoutesChange(nh, ts)

SpecVrfExport == InitVrfExport /\ [][NextVrfExport]_vars

\* the operations that take e.mu, one at a time: configuration, export,
\* withdrawal, re-evaluation and flush
LockPathLists ==
    { << MkPath(UNlri(P1), FALSE, NhA, {C100}, {}) >>,
      << MkPath(UNlri(P2), FALSE, NhA, {C200}, {}),
         MkPath(VNlri(RD1, P1), FALSE, NhB, {C100}, {}) >> }

InitLock == Init /\ cfg = [routeProtocol |-> 0, dampeningInterval |-> 100]

NextLock ==
    \/ \E rl \in RuleLists : Quiet /\ SetRules(rl)
    \/ \E vc \in VrfConfigs, fail \in FailSets : Quiet /\ BuildVrfMappings(vc, fail)
    \/ \E path \in PathSet : \E rule \in RulesFor(path) : ExportRoute("g1", path, rule)
    \/ \E ok \in BOOLEAN : ExportRouteStep("g1", ok)
    \/ \E path \in PathSet, vrfName \in VrfNames : WithdrawRoute("g1", path, vrfName)
    \/ \E ok \in BOOLEAN : WithdrawRouteStep("g1", ok)
    \/ \E path \in PathSet : ProcessUpdate("g1", path)
    \/ \E order \in VrfOrders : ProcessUpdateStep("g1", order)
    \/ \E pathList \in LockPathLists : ReEvaluateAllRoutes("g1", pathList)
    \/ \E ok \in BOOLEAN, order \in RangeOrders : ReEvaluateAllRoutesStep("g1", ok, order)
    \/ Flush("g1")
    \/ \E ok \in BOOLEAN, order \in RangeOrders : FlushStep("g1", ok, order)

SpecLock == InitLock /\ [][NextLock]_vars

\* flush in one goroutine and exportRoute in another, side by side, after
\* rules were set
NextFlush ==
    \/ \E rl \in RuleLists : Quiet /\ SetRules(rl)
    \/ \E path \in PathSet : \E rule \in RulesFor(path) : ExportRoute("g2", path, rule)
    \/ ExportRouteStep("g2", TRUE)
    \/ Flush("g1")
    \/ \E order \in RangeOrders : FlushStep("g1", TRUE, order)

SpecFlush == InitLock /\ [][NextFlush]_vars

\* the ticker loop and a caller of rescan(), each in its own goroutine,
\* with address changes between their steps
\* only the global import is configured; eth1 has no address
InitRace ==
    /\ InitImportWith([ImportCfg0 EXCEPT !.vrfs = << >>])
    /\ ifAddrs["eth1"] = {}

NextRace ==
    \/ \E g \in Scanners : RunImport(g)
    \/ \E g \in Scanners, ok \in BOOLEAN, order \in ImportOrders : RunImportStep(g, ok, order)
    \/ \E g \in Scanners, h \in Scanners : ImportFatal(g, h)
    \/ \E a \in SUBSET {AddrA, AddrB} : AddrChange("eth0", a)

SpecRace == InitRace /\ [][NextRace]_vars

\* the operations of the engine in three goroutines, each at its lock
\* operations; which branch a run takes is left open
NextLocks ==
    \/ \E t \in Threads, op \in EngineOpNames : \E prog \in LockProgram(op) : OpStart(t, op, prog)
    \/ \E t \in Threads : LockRequest(t)
    \/ \E t \in Threads : LockAcquire(t)
    \/ \E t \in Threads : RLockAcquire(t)
    \/ \E t \in Threads : LockRelease(t)

SpecLocks == InitLock /\ [][NextLocks]_vars

\* scans, address changes and changes of the configuration and of the VRFs
\* of the RIB
InitImportCfg == InitImport

NextImportCfg ==
    \/ RunImport("loop")
    \/ \E ok \in BOOLEAN, order \in ImportOrders : RunImportStep("loop", ok, order)
    \/ \E icfg \in ImportConfigs : Quiet /\ ImportConfigChange(icfg)
    \/ \E a \in SUBSET {AddrA, AddrB} : Quiet /\ AddrChange("eth0", a)
    \/ \E a \in SUBSET Eth1Addrs : Quiet /\ AddrChange("eth1", a)

SpecImportCfg == InitImportCfg /\ [][NextImportCfg]_vars

\* the import engine under a changing configuration; the loop's ticker keeps
\* firing, so a scan that would change something is eventually run
\* the configurations in which every scope has at most one import rule
SingleRuleConfigs == { icfg \in ImportConfigs : icfg.global.Vrf = "" }

NextImportLive ==
    \/ ImportTick
    \/ \E icfg \in SingleRuleConfigs : Quiet /\ ImportConfigChange(icfg)
    \/ \E a \in SUBSET Eth0Addrs : Quiet /\ AddrChange("eth0", a)
    \/ \E a \in SUBSET Eth1Addrs : Quiet /\ AddrChange("eth1", a)

\* the ticker of loop() keeps firing: weak fairness of the tick
SpecImportLive ==
    /\ InitImport
    /\ [][NextImportLive]_vars
    /\ WF_vars(ImportTick)

\* =================================================================== claims
CallOk(calls, op) == \E i \in 1..Len(calls) : calls[i].op = op /\ calls[i].ok
CallFailed(calls, op) == \E i \in 1..Len(calls) : calls[i].op = op /\ ~calls[i].ok

\* C1 (idempotent install): when exportRoute is called again with the same
\* path and rule right after a call that returned success, and the kernel
\* answers the nexthop lookup as before (no kernel change in between), the
\* second call returns success, issues no RouteReplace, leaves the Exported
\* counter and the exported map as they were; the first call issued at most
\* one RouteReplace and incremented Exported exactly as often, so that the
\* two calls together install once and count once.
C1_IdempotentInstall ==
    (last.op = "exportRoute" /\ last.repeat /\ ~CallFailed(last.calls, "RouteGet")) =>
        /\ last.err = NoErr
        /\ CountCalls(last.calls, "RouteReplace") = 0
        /\ last.d["Exported"] = 0
        /\ last.sameExported
        /\ last.prevReplace = last.prevExported
        /\ last.prevReplace <= 1

\* a second identical call has returned after a first one that installed the route
C1_Witness ==
    /\ last.op = "exportRoute"
    /\ last.repeat
    /\ ~CallFailed(last.calls, "RouteGet")
    /\ last.prevReplace = 1
    /\ last.prevExported = 1

\* C2 (round-trip tracking): whenever exportRoute(path, rule) returns success,
\* listExported holds a record under (rule.VrfName, plain prefix of path) whose
\* table, metric and gateway are rule.TableId, rule.Metric and the nexthop.
C2_RoundTripTracking ==
    (last.op = "exportRoute" /\ last.err = NoErr) =>
        LET l == listExported(exported)
            prefix == PlainPrefix(last.path)
        IN  /\ Has(l, last.rule.VrfName)
            /\ Has(l[last.rule.VrfName], prefix)
            /\ l[last.rule.VrfName][prefix].Route.Table = last.rule.TableId
            /\ l[last.rule.VrfName][prefix].Route.Priority = last.rule.Metric
            /\ l[last.rule.VrfName][prefix].Route.Gw = last.path.nh
            /\ l[last.rule.VrfName][prefix].Route.Dst = prefix

\* exportRoute of a VPN path has succeeded over an entry that another path left
C2_Witness ==
    /\ last.op = "exportRoute"
    /\ last.err = NoErr
    /\ last.path.nlri.vpn
    /\ CountCalls(last.calls, "RouteReplace") = 1

\* C3 (drift repair): when the tracked kernel route is gone from the kernel
\* and the same path is processed again under the same rule, the route is in
\* the kernel again afterwards and no error is returned.
C3_DriftRepaired ==
    (last.op = "exportRoute" /\ last.drift) =>
        /\ last.err = NoErr
        /\ exported[last.vrf][PlainPrefix(last.path)].Route \in kernel

\* what exportRoute does in that situation (616-631): no RouteReplace and no
\* RouteDel call, the exported map and the kernel stay as they were, and the
\* tracked route stays absent from the kernel
C3_DriftLeftAlone ==
    (last.op = "exportRoute" /\ last.drift) =>
        /\ CountCalls(last.calls, "RouteReplace") = 0
        /\ CountCalls(last.calls, "RouteDel") = 0
        /\ last.sameExported
        /\ last.sameKernel
        /\ exported[last.vrf][PlainPrefix(last.path)].Route \notin kernel
        /\ last.err \in {NoErr, "nexthop not reachable"}

\* the same path has been processed successfully while its tracked route was gone
C3_Unrepaired ==
    /\ last.op = "exportRoute"
    /\ last.drift
    /\ last.err = NoErr

\* exportRoute has returned nil for a (rule.vrf, prefix) that was tracked under
\* the same rule name with another metric or table-id when it was called
C4_Changed ==
    /\ last.op = "exportRoute"
    /\ last.err = NoErr
    /\ Tracked(last.before, last.vrf, PlainPrefix(last.path))
    /\ LET existingInfo == last.before.exported[last.vrf][PlainPrefix(last.path)]
       IN  /\ existingInfo.RuleName = last.rule.Name
           /\ \/ existingInfo.Route.Table # last.rule.TableId
              \/ existingInfo.Route.Priority # last.rule.Metric

\* the route that was tracked for the prefix when exportRoute was called
C4_Old == last.before.exported[last.vrf][PlainPrefix(last.path)].Route

\* C4 as stated (parameter change): after an install over an entry of the same
\* rule name with another metric or table-id, the old route is gone from the
\* kernel and the new one is installed, also when the deletion of the old
\* route failed.
C4_OldRouteGone ==
    C4_Changed =>
        /\ C4_Old \notin kernel
        /\ exported[last.vrf][PlainPrefix(last.path)].Route \in kernel

\* C4 as amended: such an install issues one RouteDel for the old route and
\* one RouteReplace for the new one, and the new route is in the kernel and
\* tracked with the rule's table and metric; the old route is gone from the
\* kernel when its deletion succeeded; when its deletion failed, an old route
\* that was in the kernel is still there.
C4_ParameterChange ==
    C4_Changed =>
        /\ CountCalls(last.calls, "RouteDel") = 1
        /\ \E i \in 1..Len(last.calls) :
              last.calls[i].op = "RouteDel" /\ last.calls[i].route = C4_Old
        /\ CountCalls(last.calls, "RouteReplace") = 1
        /\ Tracked(St0, last.vrf, PlainPrefix(last.path))
        /\ exported[last.vrf][PlainPrefix(last.path)].Route \in kernel
        /\ exported[last.vrf][PlainPrefix(last.path)].Route.Table = last.rule.TableId
        /\ exported[last.vrf][PlainPrefix(last.path)].Route.Priority = last.rule.Metric
        /\ (CallOk(last.calls, "RouteDel") => C4_Old \notin kernel)
        /\ ((CallFailed(last.calls, "RouteDel") /\ C4_Old \in last.before.kernel) =>
               C4_Old \in kernel)

\* a changed metric or table has been installed after the old route was deleted
C4_Witness ==
    /\ C4_Changed
    /\ CallOk(last.calls, "RouteDel")
    /\ C4_Old \in last.before.kernel

\* a changed metric or table has been installed after the deletion of the old
\* route, which was in the kernel, failed
C4_DeleteFailed ==
    /\ C4_Changed
    /\ CallFailed(last.calls, "RouteDel")
    /\ C4_Old \in last.before.kernel

\* C5 (withdrawal symmetry): after a processUpdate of a withdrawal, for every
\* VRF that tracked the prefix the tracked route is gone from the kernel and
\* the entry is gone from exported.
C5_EveryHolderWithdrawn ==
    (last.op = "processUpdate" /\ last.path.IsWithdraw) =>
        \A v \in VrfNames :
           Tracked(last.before, v, PlainPrefix(last.path)) =>
              /\ ~Tracked(St0, v, PlainPrefix(last.path))
              /\ last.before.exported[v][PlainPrefix(last.path)].Route \notin kernel

\* what processUpdate does (892-925): withdrawRoute is called for every VRF
\* that tracks the prefix, and an entry is removed when its RouteDel succeeded
C5_WithdrawalSymmetry ==
    (last.op = "processUpdate" /\ last.path.IsWithdraw) =>
        \A v \in VrfNames :
           Tracked(last.before, v, PlainPrefix(last.path)) =>
              /\ \E w \in last.wd : w.vrf = v
              /\ \A w \in last.wd :
                    (w.vrf = v /\ w.ok) =>
                       /\ ~Tracked(St0, v, PlainPrefix(last.path))
                       /\ last.before.exported[v][PlainPrefix(last.path)].Route \notin kernel

\* a withdrawal has left the prefix tracked in a VRF with no kernel call
\* refused for a reason of the kernel's own: the RouteDel that failed asked
\* for the route the withdrawal of the other VRF had just deleted
C5_SharedRouteKept ==
    /\ last.op = "processUpdate"
    /\ last.path.IsWithdraw
    /\ Len(last.calls) = 2
    /\ last.calls[1].op = "RouteDel" /\ last.calls[1].ok
    /\ last.calls[2].op = "RouteDel" /\ ~last.calls[2].ok
    /\ last.calls[2].route = last.calls[1].route
    /\ \E v \in VrfNames :
          /\ Tracked(St0, v, PlainPrefix(last.path))
          /\ exported[v][PlainPrefix(last.path)].Route = last.calls[2].route

\* C6: a withdrawRoute whose RouteDel fails increments Errors and still
\* removes the entry from exported.
C6_EntryRemovedOnFailure ==
    (last.op = "withdrawRoute" /\ last.wasTracked /\ CallFailed(last.calls, "RouteDel")) =>
        /\ last.d["Errors"] = 1
        /\ ~Tracked(St0, last.vrf, PlainPrefix(last.path))

\* what withdrawRoute does (791-819): when RouteDel fails it counts the error,
\* returns it and leaves the entry in exported; the entry is removed only
\* when RouteDel succeeded
C6_EntryKeptOnFailure ==
    (last.op = "withdrawRoute" /\ last.wasTracked) =>
        /\ CountCalls(last.calls, "RouteDel") = 1
        /\ (CallFailed(last.calls, "RouteDel") =>
              /\ last.err # NoErr
              /\ last.d["Errors"] = 1
              /\ last.d["Withdrawn"] = 0
              /\ last.sameExported
              /\ Tracked(St0, last.vrf, PlainPrefix(last.path)))
        /\ (CallOk(last.calls, "RouteDel") =>
              /\ last.err = NoErr
              /\ last.d["Errors"] = 0
              /\ last.d["Withdrawn"] = 1
              /\ ~Tracked(St0, last.vrf, PlainPrefix(last.path)))

\* a withdrawRoute of a tracked entry has returned after its RouteDel failed
C6_EntryLeaked ==
    /\ last.op = "withdrawRoute"
    /\ last.wasTracked
    /\ CallFailed(last.calls, "RouteDel")
    /\ last.err # NoErr

\* C7 (dampening coalescence): in a burst of k >= 1 updates to one prefix,
\* each scheduled while the timer of the previous one was still armed, there
\* is exactly one timer for the prefix, it carries the path that arrived
\* last, and DampenedUpdates has grown by k-1; when its callback has run, the
\* path processed is the last one and no timer or pending entry is left, so
\* the burst is processed exactly once.
C7_DampeningCoalescence ==
    /\ \A key \in PendingKeys :
          (burst[key].n >= 1 /\ burst[key].ok) =>
             /\ Has(pendingUpdates, key)
             /\ pendingUpdates[key].path = burst[key].lastPath
             /\ Cardinality(TimersOf(timers, key)) = 1
             /\ \A t \in TimersOf(timers, key) :
                   t.path = burst[key].lastPath /\ t.id = pendingUpdates[key].timer
             /\ burst[key].d = burst[key].n - 1
    /\ (last.op = "processDampenedUpdate" /\ last.burst.ok /\ last.burst.n >= 1) =>
          /\ last.path = last.burst.lastPath
          /\ last.burst.d = last.burst.n - 1
          /\ TimersOf(timers, NlriString(last.path.nlri)) = {}
          /\ ~Has(pendingUpdates, NlriString(last.path.nlri))

\* the callback of a burst of two updates with different paths has run
C7_Witness ==
    /\ last.op = "processDampenedUpdate"
    /\ last.burst.ok
    /\ last.burst.n >= 2
    /\ last.burst.d = last.burst.n - 1
    /\ stats["DampenedUpdates"] >= 1
    /\ last.path.nh = NhB

\* C8 (dampening disabled): an engine created with dampening-interval 0 never
\* has a pending entry or a timer and never counts a dampened update.
C8_DampeningDisabled ==
    cfg.dampeningInterval = 0 =>
        /\ pendingUpdates = EmptyMap
        /\ timers = {}
        /\ stats["DampenedUpdates"] = 0

\* the (target VRF, plain prefix) pairs that the rule list produces over the
\* paths of an enumeration selected by sel
RulePairs(pathList, sel) ==
    {<<rules[x[2]].VrfName, PlainPrefix(pathList[x[1]])>> :
        x \in {y \in sel \X (1..Len(rules)) : matchesRule(pathList[y[1]], rules[y[2]])}}

\* the pairs that the VRF export bindings produce over the VPN paths
BindingPairs(pathList, sel) ==
    UNION {{<<r.VrfName, PlainPrefix(pathList[i])>> : r \in RulesFor(pathList[i])} : i \in sel}

Live(pathList) == {i \in 1..Len(pathList) : ~pathList[i].IsWithdraw}
LiveVpn(pathList) == {i \in Live(pathList) : pathList[i].nlri.vpn}

\* the (vrf, prefix) pairs and the routes of a tracking map
PairsOf(m) == UNION {{<<v, k>> : k \in DOMAIN m[v]} : v \in DOMAIN m}
RoutesOf(m) == {m[pr[1]][pr[2]].Route : pr \in PairsOf(m)}

TrackedPairs == PairsOf(exported)

\* C9 (reconfiguration convergence): after reEvaluateAllRoutes has run over
\* an enumeration with every install and every kernel call succeeding, the
\* tracked map holds exactly the (target VRF, prefix) pairs that the current
\* rules produce over the enumeration, each with its route in the kernel;
\* the pairs of a VPN path are those of the rule list or, read with the VPN
\* routing of C10, those of its VRF export binding.
C9_ReconfigurationConverges ==
    (last.op = "reEvaluateAllRoutes" /\ ~last.anyErr
        /\ \A i \in 1..Len(last.calls) : last.calls[i].ok) =>
        /\ \/ TrackedPairs = RulePairs(last.pathList, Live(last.pathList))
           \/ TrackedPairs =
                 RulePairs(last.pathList, Live(last.pathList) \ LiveVpn(last.pathList))
                 \cup BindingPairs(last.pathList, LiveVpn(last.pathList))
        /\ \A pr \in TrackedPairs : exported[pr[1]][pr[2]].Route \in kernel

\* C10 (VPN RD routing): a VPN-family path is handed to exportRoute only by
\* processVrfExport, never with a rule of the global rule list, and only
\* when its RD is bound to a VRF that has an export configuration.
C10_VpnNeverGlobal ==
    /\ \A e \in last.exports : e.vpn => e.site = "processVrfExport"
    /\ (last.op = "processUpdate" /\ last.path.nlri.vpn /\ last.exports # {}) =>
          /\ Has(rdToVrf, last.path.nlri.rd)
          /\ Has(vrfRules, rdToVrf[last.path.nlri.rd])

\* the tables the engine can install into: the main table, the tables of the
\* VRF devices, the table of every export rule the configuration can hold
EngineTables ==
    {0} \cup {KernelLinks[l].Table : l \in DOMAIN KernelLinks}
        \cup UNION {{rl[i].TableId : i \in 1..Len(rl)} : rl \in RuleLists \cup CustomTableRuleLists}

\* C11 (startup cleanup completeness): when the constructor has returned
\* after cleanupStaleRoutes with every kernel call succeeding, no table the
\* engine can install into holds a route carrying the engine's protocol.
C11_CleanupComplete ==
    (last.op = "newNetlinkExportClient" /\ last.err = NoErr
        /\ \A i \in 1..Len(last.calls) : last.calls[i].ok) =>
        \A r \in kernel : r.Protocol = routeProtocol => r.Table \notin EngineTables

\* C12 as stated: with protocol id 0 the constructor returns an error and no
\* engine runs.
C12_ZeroProtocolRejected ==
    cfg.routeProtocol = 0 => ~Started

\* C12 as amended: the constructor fails only when the netlink handle cannot
\* be created; with protocol id 0 it returns an engine whose protocol is
\* RTPROT_BGP, with another id an engine with that id; a running engine never
\* has protocol 0 and every route it tracks carries its protocol.
C12_ZeroProtocolDefaulted ==
    /\ (last.op = "newNetlinkExportClient" /\ last.err # NoErr) =>
          /\ last.err = "failed to create netlink handle"
          /\ last.calls = << >>
    /\ Started =>
          /\ routeProtocol = (IF cfg.routeProtocol = 0 THEN RTPROT_BGP ELSE cfg.routeProtocol)
          /\ routeProtocol # 0
          /\ \A pr \in TrackedPairs : exported[pr[1]][pr[2]].Route.Protocol = routeProtocol

\* an engine created with protocol id 0 has installed a route
C12_Witness ==
    /\ Started
    /\ cfg.routeProtocol = 0
    /\ routeProtocol = RTPROT_BGP
    /\ \E pr \in TrackedPairs : exported[pr[1]][pr[2]].Route \in kernel

\* C13 (community match semantics): matchesRule(path, rule) is true exactly
\* when both community sets of the rule are empty, or the path's standard
\* communities meet the rule's, or the path's large communities meet the rule's.
C13_CommunityMatch ==
    last.op = "matchesRule" =>
        last.result = \/ (last.rule.Communities = {} /\ last.rule.LargeCommunities = {})
                      \/ last.path.comms \cap last.rule.Communities # {}
                      \/ last.path.lcomms \cap last.rule.LargeCommunities # {}

\* a path has matched through a large community although the rule's standard
\* communities are not on the path
C13_Witness ==
    /\ last.op = "matchesRule"
    /\ last.result
    /\ last.rule.Communities # {}
    /\ last.path.comms \cap last.rule.Communities = {}
    /\ last.path.lcomms \cap last.rule.LargeCommunities # {}

\* the routes of the tracked entries
TrackedRoutes == RoutesOf(exported)

\* C14 (flush): when flush returns, the exported map is empty, one RouteDel
\* has been issued for every entry that was tracked when it started, also
\* after a RouteDel that failed, and a route that was tracked is still in the
\* kernel only if a RouteDel failed; flush returns no error.
C14_Flush ==
    last.op = "flush" =>
        /\ exported = EmptyMap
        /\ last.err = NoErr
        /\ CountCalls(last.calls, "RouteDel") = Cardinality(PairsOf(last.before.exported))
        /\ (RoutesOf(last.before.exported) \cap kernel # {}
               => CallFailed(last.calls, "RouteDel"))
        /\ (~CallFailed(last.calls, "RouteDel")
               => kernel = last.before.kernel \ RoutesOf(last.before.exported))

\* a flush of two tracked routes has cleared the map although its first
\* RouteDel failed, and has deleted the second route
C14_Witness ==
    /\ last.op = "flush"
    /\ Len(last.calls) = 2
    /\ ~last.calls[1].ok
    /\ last.calls[2].ok
    /\ exported = EmptyMap
    /\ kernel # {}

\* C15 (invariant I1): with no change to the kernel from outside, after any
\* sequence of updates, rule changes, re-evaluations and flushes, kernel calls
\* failing or not, every tracked entry has a kernel route with the engine's
\* protocol at the entry's table and prefix.
C15_TrackedInKernel ==
    Quiet =>
        \A pr \in TrackedPairs :
            \E k \in kernel :
                /\ k.Table = exported[pr[1]][pr[2]].Route.Table
                /\ k.Dst = exported[pr[1]][pr[2]].Route.Dst
                /\ k.Protocol = routeProtocol

\* the kernel routes of the engine's protocol for a prefix
EngineRoutesFor(prefix) == {k \in kernel : k.Dst = prefix /\ k.Protocol = routeProtocol}

\* C19 (multi-rule export): when a non-VPN path has been processed with every
\* kernel call succeeding, the kernel holds, for every rule that matches it, a
\* route for the prefix in that rule's table with that rule's metric, also for
\* rules of the same VRF name; and when the withdrawal of a prefix has been
\* processed with every kernel call succeeding, no route of the engine is
\* left in the kernel for that prefix.
C19_MultiRuleExport ==
    /\ (last.op = "processUpdate" /\ ~last.path.IsWithdraw /\ ~last.path.nlri.vpn
           /\ ~last.anyErr /\ \A i \in 1..Len(last.calls) : last.calls[i].ok) =>
          \A i \in 1..Len(rules) :
             matchesRule(last.path, rules[i]) =>
                \E k \in EngineRoutesFor(PlainPrefix(last.path)) :
                   k.Table = rules[i].TableId /\ k.Priority = rules[i].Metric
    /\ (last.op = "processUpdate" /\ last.path.IsWithdraw
           /\ \A i \in 1..Len(last.calls) : last.calls[i].ok) =>
          EngineRoutesFor(PlainPrefix(last.path)) = {}


\* ------------------------------------------------------------ import scans
\* the scans of the run of runImport that completed last
LastScans == { last.scans[i] : i \in 1..Len(last.scans) }

\* the global unicast networks on the interfaces of a scan whose lookup succeeded
ScanCurrent(scan) ==
    UNION { { a.Network : a \in { x \in ifAddrs[i] : x.Class = "global" } } :
              i \in { scan.interfaces[j] : j \in 1..Len(scan.interfaces) } \ scan.ifFail }

ScanCalls(scan) == { scan.calls[i] : i \in 1..Len(scan.calls) }

\* the paths a scan handed to the RIB as adds and as withdrawals
SubmittedAdds(scan) ==
    UNION { { p \in c.pathList : ~p.IsWithdraw } : c \in ScanCalls(scan) }

SubmittedWithdraws(scan) ==
    UNION { { p \in c.pathList : p.IsWithdraw } : c \in ScanCalls(scan) }

\* C16 (invariant I2): after every completed import scan, every (vrf, prefix)
\* of advertisedPaths has a path in the RIB that the import engine submitted,
\* and for every prefix that was advertised and is no longer found on the
\* interfaces a withdrawal has been submitted, also when the RIB rejected a
\* submission of the scan.
C16_AdvertisedInRib ==
    last.op = "runImport" =>
        /\ \A vrfName \in DOMAIN advertisedPaths :
              \A key \in DOMAIN advertisedPaths[vrfName] :
                 [Vrf |-> vrfName, Prefix |-> key] \in rib
        /\ \A scan \in LastScans :
              \A key \in (DOMAIN scan.before) \ ScanCurrent(scan) :
                 \E p \in SubmittedWithdraws(scan) : p.Prefix = key

\* C17: when addPathList returns an error for the adds or the withdrawals of
\* a scan, advertisedPaths of the scope is what it was before the scan, and
\* the Errors counter has grown.
C17_ErrorKeepsAdvertised ==
    last.op = "runImport" =>
        \A scan \in LastScans :
           ScanFailed(scan) =>
              /\ advertisedOf(advertisedPaths, scan.vrf) = scan.before
              /\ scan.errorsAfter > scan.errorsBefore

\* C18: in each scan of a scope the adds submitted are the found prefixes
\* that were not advertised, the withdrawals submitted are the withdraw clones
\* of the advertised paths whose prefix is not found any more, and after a
\* scan without a submission error the advertised prefixes are the found ones.
C18_Reconciliation ==
    last.op = "runImport" =>
        \A scan \in LastScans :
           /\ { p.Prefix : p \in SubmittedAdds(scan) }
                 = ScanCurrent(scan) \ (DOMAIN scan.before)
           /\ SubmittedWithdraws(scan)
                 = { [scan.before[k] EXCEPT !.IsWithdraw = TRUE] :
                       k \in (DOMAIN scan.before) \ ScanCurrent(scan) }
           /\ \A c \in ScanCalls(scan) : c.vrf = scan.vrf
           /\ ~ScanFailed(scan) =>
                 DOMAIN advertisedOf(advertisedPaths, scan.vrf) = ScanCurrent(scan)

\* a scan that submitted adds and withdrawals, both accepted
C18_Witness ==
    /\ last.op = "runImport"
    /\ \E scan \in LastScans :
          /\ SubmittedAdds(scan) # {}
          /\ SubmittedWithdraws(scan) # {}
          /\ ~ScanFailed(scan)
          /\ DOMAIN advertisedPaths[scan.vrf] = ScanCurrent(scan)


\* --------------------------------------------- re-evaluation and updates
\* the prefixes of the RIB snapshot a run of reEvaluateAllRoutes was given
SnapshotPrefixes(pathList) == { NlriString(pathList[i].nlri) : i \in 1..Len(pathList) }

\* the updates that were processed while the re-evaluation that returned
\* last was running, for each prefix the one that returned last
UpdatesDuring ==
    { i \in 1..Len(last.overlap) :
        /\ last.overlap[i].op = "processUpdate"
        /\ \A j \in (i + 1)..Len(last.overlap) :
              last.overlap[j].path.nlri # last.overlap[i].path.nlri }

\* C20: reEvaluateAllRoutes is atomic with respect to update processing: a
\* route that an update installed while the re-evaluation was running is not
\* withdrawn by that re-evaluation because its path was absent from the RIB
\* snapshot; when the re-evaluation ends the route is in the kernel and
\* tracked.
C20_ReEvalAtomic ==
    last.op = "reEvaluateAllRoutes" =>
        \A i \in UpdatesDuring :
           \A a \in last.overlap[i].installed :
              a.prefix \notin SnapshotPrefixes(last.pathList) =>
                 /\ a.route \in kernel
                 /\ Has(exported, a.vrf) /\ Has(exported[a.vrf], a.prefix)


\* ---------------------------------------------------- order of the updates
\* every timer has run its callback to its end and no update is pending
Quiescent == timers = {} /\ pendingUpdates = EmptyMap /\ Quiet

\* the engine's kernel routes for a prefix
KernelRoutesFor(key) == { r \in kernel : r.Dst = key }

\* C21 (per-prefix ordering through the dampener): the engine never applies
\* an older update of a prefix after a newer one. Once every timer has run
\* and no update is pending, the state is that of the update delivered last:
\* after a withdrawal the prefix is not tracked and has no kernel route of the
\* engine, after an announcement the tracked route leads to its nexthop.
C21_PerPrefixOrder ==
    Quiescent =>
        \A key \in PendingKeys :
           /\ (delivered[key] # NoPath /\ delivered[key].IsWithdraw) =>
                 /\ \A v \in DOMAIN exported : ~Has(exported[v], key)
                 /\ KernelRoutesFor(key) = {}
           /\ (delivered[key] # NoPath /\ ~delivered[key].IsWithdraw) =>
                 \A v \in DOMAIN exported :
                    Has(exported[v], key) => exported[v][key].Route.Gw = delivered[key].nh


\* ------------------------------------------------------------ ONLINK policy
\* C22 (ONLINK policy): a route installed under a rule with validate-nexthop
\* false has the ONLINK flag, and when the rule's target VRF is not empty it
\* carries the link index of the kernel's VRF device.
C22_OnlinkPolicy ==
    (last.op = "exportRoute" /\ CallOk(last.calls, "RouteReplace")
       /\ ~last.rule.ValidateNexthop) =>
        LET r == exported[last.rule.VrfName][PlainPrefix(last.path)].Route
        IN  /\ r \in kernel
            /\ r.Flags = FLAG_ONLINK
            /\ last.rule.VrfName # "" => r.LinkIndex = KernelLinks[last.rule.VrfName].Index


\* -------------------------------------------------------- nexthop validation
\* the kernel's answer for the nexthop of the last call admits the install:
\* RouteGet returned a route, and one of the rule's table when table-id > 0
NexthopAdmitted ==
    /\ ~CallFailed(last.calls, "RouteGet")
    /\ nhRoutes[last.path.nh] # {}
    /\ last.rule.TableId > 0 => last.rule.TableId \in nhRoutes[last.path.nh]

\* C23 (nexthop validation): under a rule with validate-nexthop true,
\* exportRoute calls RouteReplace only if the nexthop is admitted; otherwise
\* it fails as unreachable without a RouteReplace, leaves exported and the
\* kernel as they were and counts one validation failure; every validated
\* call counts one attempt.
C23_NexthopValidation ==
    (last.op = "exportRoute" /\ last.rule.ValidateNexthop /\ last.path.nh # Unspecified) =>
        /\ last.d["NexthopValidation"] = 1
        /\ CountCalls(last.calls, "RouteGet") = 1
        /\ NexthopAdmitted =>
              /\ last.d["NexthopFailed"] = 0
              /\ last.err # "nexthop not reachable"
        /\ ~NexthopAdmitted =>
              /\ last.err = "nexthop not reachable"
              /\ CountCalls(last.calls, "RouteReplace") = 0
              /\ CountCalls(last.calls, "RouteDel") = 0
              /\ last.sameExported
              /\ last.sameKernel
              /\ last.d["NexthopFailed"] = 1

\* a rule for table 100 has rejected a nexthop that is reachable through the
\* main table only
C23_Witness ==
    /\ last.op = "exportRoute"
    /\ last.rule.ValidateNexthop
    /\ last.rule.TableId = 100
    /\ last.path.nh \in Nexthops
    /\ nhRoutes[last.path.nh] = NhMain
    /\ ~CallFailed(last.calls, "RouteGet")
    /\ last.err = "nexthop not reachable"
    /\ last.d["NexthopFailed"] = 1


\* ------------------------------------------------------------------ shutdown
\* after the import loop has returned no scan runs
LoopExitedNoScan ==
    shutdown.loop = "exited" => (conc.scan["loop"].pc = "idle" /\ last.op # "runImport")

\* C24 (shutdown): after close() of the export engine no dampener timer runs
\* a processing call and the engine issues no RouteReplace or RouteDel; after
\* the import loop has taken the signal of n.dead it runs no scan.
C24_Shutdown ==
    /\ shutdown.stopCh =>
          /\ last.op # "processDampenedUpdate"
          /\ CountCalls(last.calls, "RouteReplace") = 0
          /\ CountCalls(last.calls, "RouteDel") = 0
    /\ LoopExitedNoScan


\* ------------------------------------------------------ import scope isolation
\* C25 (import scope isolation): a scan of a scope changes advertisedPaths of
\* that scope only and submits to the table of that scope only; what is
\* advertised and what the RIB holds for every other scope stays as it was.
C25_ScopeIsolation ==
    last.op = "runImport" =>
        \A scan \in LastScans :
           /\ \A c \in ScanCalls(scan) : c.vrf = scan.vrf
           /\ \A v \in ((DOMAIN scan.advBefore) \cup (DOMAIN scan.advAfter)) \ {scan.vrf} :
                 /\ v \in DOMAIN scan.advBefore
                 /\ v \in DOMAIN scan.advAfter
                 /\ scan.advAfter[v] = scan.advBefore[v]
           /\ { e \in scan.ribAfter : e.Vrf # scan.vrf }
                 = { e \in scan.ribBefore : e.Vrf # scan.vrf }

\* a scan of the global scope has withdrawn a prefix that stays advertised,
\* and in the RIB, for VRF red
C25_Witness ==
    /\ last.op = "runImport"
    /\ \E scan \in LastScans :
          /\ scan.vrf = ""
          /\ ~ScanFailed(scan)
          /\ \E p \in SubmittedWithdraws(scan) :
                /\ Has(advertisedPaths, "red")
                /\ Has(advertisedPaths["red"], p.Prefix)
                /\ [Vrf |-> "red", Prefix |-> p.Prefix] \in rib
                /\ [Vrf |-> "", Prefix |-> p.Prefix] \notin rib


\* -------------------------------------------------------- GetConnectedRoutes
\* the positions of the listed routes whose protocol is kernel
KernelPositions(routes) == { i \in 1..Len(routes) : routes[i].Protocol = 2 }

\* the position in routes of the k-th route whose protocol is kernel
KthKernelPosition(routes, k) ==
    CHOOSE i \in KernelPositions(routes) :
       Cardinality({ j \in KernelPositions(routes) : j <= i }) = k

\* C26: GetConnectedRoutes returns exactly the listed routes whose protocol is
\* 2, in the order of the list, and returns an error and no route when the
\* link lookup or the route listing fails.
C26_ConnectedRoutes ==
    last.op = "GetConnectedRoutes" =>
        IF last.linkOk /\ last.listOk
        THEN /\ ~last.connected.err
             /\ Len(last.connected.routes) = Cardinality(KernelPositions(last.routes))
             /\ \A k \in 1..Len(last.connected.routes) :
                   last.connected.routes[k] = last.routes[KthKernelPosition(last.routes, k)]
        ELSE /\ last.connected.err
             /\ last.connected.routes = << >>

\* a list with a boot route between two kernel routes has been filtered
C26_Witness ==
    /\ last.op = "GetConnectedRoutes"
    /\ last.linkOk /\ last.listOk
    /\ Len(last.routes) = 3
    /\ last.routes[1].Protocol = 2 /\ last.routes[2].Protocol = 3 /\ last.routes[3].Protocol = 2
    /\ last.routes[1] # last.routes[3]
    /\ last.connected.routes = << last.routes[1], last.routes[3] >>


\* ------------------------------------------------- order of the submissions
\* a submission of a scan is an add batch or a withdraw batch
IsAddBatch(c) == \E p \in c.pathList : ~p.IsWithdraw

IsWithdrawBatch(c) == \E p \in c.pathList : p.IsWithdraw

\* the prefixes a scan has to add and to withdraw
ScanNewKeys(scan) == (DOMAIN scan.current) \ (DOMAIN scan.before)

ScanGoneKeys(scan) == (DOMAIN scan.before) \ (DOMAIN scan.current)

\* C27: within one import scan of a scope the add batch is submitted to the
\* RIB before the withdraw batch, and when the add submission fails the
\* withdraw batch is still submitted in the same scan.
C27_AddBeforeWithdraw ==
    \A scan \in LastScans :
       /\ \A i, j \in 1..Len(scan.calls) :
             IsAddBatch(scan.calls[i]) /\ IsWithdrawBatch(scan.calls[j]) => i < j
       /\ ScanGoneKeys(scan) # {} =>
             \E j \in 1..Len(scan.calls) :
                /\ scan.calls[j].vrf = scan.vrf
                /\ { p.Prefix : p \in scan.calls[j].pathList } =
                      { scan.before[k].Prefix : k \in ScanGoneKeys(scan) }
                /\ \A p \in scan.calls[j].pathList : p.IsWithdraw

\* a scan whose add submission failed and whose withdraw batch followed it
C27_Witness ==
    \E scan \in LastScans :
       /\ ScanNewKeys(scan) # {} /\ ScanGoneKeys(scan) # {}
       /\ Len(scan.calls) = 2
       /\ IsAddBatch(scan.calls[1]) /\ scan.calls[1].err
       /\ IsWithdrawBatch(scan.calls[2]) /\ ~scan.calls[2].err


\* ------------------------------------------------- export without a nexthop
\* C28: exportRoute on a path whose nexthop is unspecified fails with the
\* no-nexthop error before any kernel adapter call, and leaves exported,
\* pendingUpdates and the nexthop validation counters as they were.
C28_NoNexthop ==
    (last.op = "exportRoute" /\ last.path.nh = Unspecified) =>
        /\ last.err = "no valid nexthop"
        /\ last.calls = << >>
        /\ kernel = last.before.kernel
        /\ exported = last.before.exported
        /\ pendingUpdates = last.before.pendingUpdates
        /\ last.d["NexthopValidation"] = 0
        /\ last.d["NexthopFailed"] = 0

\* exportRoute has refused a path without nexthop under a rule that validates
\* nexthops, while a prefix was tracked and the validation counters had counted
C28_Witness ==
    /\ last.op = "exportRoute"
    /\ last.path.nh = Unspecified
    /\ last.rule.ValidateNexthop
    /\ last.err = "no valid nexthop"
    /\ exported # EmptyMap
    /\ stats["NexthopValidation"] > 0


\* ----------------------------------------------------------- per-VRF export
\* the export binding of the VRF the RD of the processed path maps to
BindingOf(path) == vrfRules[rdToVrf[path.nlri.rd]]

HasBinding(path) ==
    /\ path.nlri.vpn
    /\ Has(rdToVrf, path.nlri.rd)
    /\ Has(vrfRules, rdToVrf[path.nlri.rd])

\* the binding has a filter and the path carries none of its communities
FilteredOut(path, b) ==
    /\ b.CommunityList \cup b.LargeCommunityList # {}
    /\ path.comms \cap b.CommunityList = {}
    /\ path.lcomms \cap b.LargeCommunityList = {}

\* the rule carries the target of the binding
RuleOfBinding(rule, b) ==
    /\ rule.VrfName = b.LinuxVrf
    /\ rule.TableId = b.LinuxTableId
    /\ rule.Metric = b.Metric
    /\ rule.ValidateNexthop = b.ValidateNexthop

\* C29 (per-VRF export): a VPN path whose RD maps to a VRF with an export
\* binding is dropped iff the binding has a community or large-community
\* filter and the path carries none of them; otherwise it is exported once,
\* under a rule with the binding's linux-vrf, linux-table-id, metric and
\* validate-nexthop, the route RouteReplace installs has that table and metric
\* and the plain prefix, and it is tracked under exported[linux-vrf][plain
\* prefix], never under the NLRI with its RD.
C29_VrfExport ==
    (last.op = "processUpdate" /\ ~last.path.IsWithdraw /\ HasBinding(last.path)) =>
        LET b == BindingOf(last.path)
            prefix == << "", last.path.nlri.pfx >>
        IN  /\ FilteredOut(last.path, b) =>
                  /\ last.exports = {}
                  /\ last.calls = << >>
                  /\ last.sameExported /\ last.sameKernel
            /\ ~FilteredOut(last.path, b) =>
                  /\ Cardinality(last.exports) = 1
                  /\ \A e \in last.exports :
                        e.site = "processVrfExport" /\ RuleOfBinding(e.rule, b)
                  /\ ~last.anyErr =>
                        /\ Tracked([exported |-> exported], b.LinuxVrf, prefix)
                        /\ exported[b.LinuxVrf][prefix].Route.Dst = prefix
                        /\ exported[b.LinuxVrf][prefix].Route.Table = b.LinuxTableId
                        /\ exported[b.LinuxVrf][prefix].Route.Priority = b.Metric
                  /\ CallOk(last.calls, "RouteReplace") =>
                        \E r \in kernel :
                           /\ r.Dst = prefix /\ r.Gw = last.path.nh
                           /\ r.Table = b.LinuxTableId /\ r.Priority = b.Metric
                           /\ (r.Flags = FLAG_ONLINK) = ~b.ValidateNexthop
                           /\ exported[b.LinuxVrf][prefix].Route = r
            /\ \A v \in DOMAIN exported :
                  ~Has(exported[v], NlriString(last.path.nlri))

\* a path carrying a large community of the filter of VRF blue has been
\* installed into the table of the Linux VRF red and is tracked under red
C29_Witness ==
    /\ last.op = "processUpdate" /\ ~last.path.IsWithdraw /\ HasBinding(last.path)
    /\ rdToVrf[last.path.nlri.rd] = "blue"
    /\ BindingOf(last.path).LinuxVrf = "red"
    /\ ~FilteredOut(last.path, BindingOf(last.path))
    /\ CallOk(last.calls, "RouteReplace")
    /\ Tracked([exported |-> exported], "red", << "", last.path.nlri.pfx >>)
    /\ ~Has(exported, "blue")

\* a path carrying none of the communities of the filter has been dropped
C29_WitnessDropped ==
    /\ last.op = "processUpdate" /\ ~last.path.IsWithdraw /\ HasBinding(last.path)
    /\ FilteredOut(last.path, BindingOf(last.path))
    /\ last.exports = {}


\* ----------------------------------------------------------- lock discipline
\* the kernel adapter calls of the last operation made while it held e.mu
CallsUnderLock == { i \in 1..Len(last.calls) : last.calls[i].mu # "" }

EngineOps == {"exportRoute", "withdrawRoute", "processUpdate", "reEvaluateAllRoutes",
              "flush", "buildVrfMappings", "cleanupStaleRoutes"}

\* C30 (lock discipline): no operation of the export engine holds e.mu, in
\* read or write mode, while a kernel adapter call is in progress.
C30_LockDiscipline ==
    last.op \in EngineOps => CallsUnderLock = {}

\* every operation but buildVrfMappings releases e.mu before it calls the
\* kernel adapter
C30_OthersUnlocked ==
    (last.op \in EngineOps /\ last.op # "buildVrfMappings") => CallsUnderLock = {}

\* buildVrfMappings has called LinkList while holding the write lock
C30_LinkListUnderLock ==
    /\ last.op = "buildVrfMappings"
    /\ \E i \in CallsUnderLock : last.calls[i].op = "LinkList" /\ last.calls[i].mu = "W"


\* ------------------------------------------------- no untracked kernel route
\* every kernel call of the operation that completed last succeeded
AllCallsSucceeded(calls) == \A i \in 1..Len(calls) : calls[i].ok

TrackingOps == {"exportRoute", "withdrawRoute", "processUpdate", "reEvaluateAllRoutes",
                "flush"}

\* C31 (no untracked kernel route): an operation whose kernel calls all
\* succeed, started in a state where every kernel route of the engine is
\* recorded in exported, ends in such a state: no tracking entry is
\* overwritten or dropped while the route it described is still installed.
C31_NoUntrackedRoute ==
    (/\ last.op \in TrackingOps
     /\ AllCallsSucceeded(last.calls)
     /\ last.before.kernel \subseteq RoutesOf(last.before.exported))
    => kernel \subseteq TrackedRoutes

\* a route the engine installed is in the kernel and in no tracking entry
C31_Untracked ==
    /\ last.op \in TrackingOps
    /\ AllCallsSucceeded(last.calls)
    /\ \E r \in kernel : r \notin TrackedRoutes


\* ------------------------------------------------------ withdrawal isolation
\* the tracking entry was written for a per-VRF export binding
IsVrfEntry(e) == e.RuleName \in { VrfExportName[v] : v \in DOMAIN VrfExportName }

\* the entry was exported from another source than the withdrawn path: for a
\* VPN path every entry but the one of the VRF bound to its RD, for a unicast
\* path every entry of a per-VRF export binding
OtherSource(path, e) ==
    IF path.nlri.vpn
    THEN ~(/\ Has(rdToVrf, path.nlri.rd)
           /\ e.RuleName = VrfExportName[rdToVrf[path.nlri.rd]])
    ELSE IsVrfEntry(e)

\* C32 (withdrawal isolation): processing the withdrawal of a VPN path removes
\* only the route exported for the VRF bound to its RD, and processing the
\* withdrawal of a unicast path removes only routes exported under global
\* rules; an entry of another source stays tracked and its route installed.
C32_WithdrawalIsolation ==
    (last.op = "processUpdate" /\ last.path.IsWithdraw) =>
        \A pr \in PairsOf(last.before.exported) :
           LET e == last.before.exported[pr[1]][pr[2]]
           IN  OtherSource(last.path, e) =>
                  /\ Has(exported, pr[1]) /\ Has(exported[pr[1]], pr[2])
                  /\ exported[pr[1]][pr[2]] = e
                  /\ e.Route \in last.before.kernel => e.Route \in kernel


\* ------------------------------------------- re-evaluation and VRF bindings
\* the entry under (v, prefix) was installed through an export binding that
\* still exists and still matches a path of the enumeration
BindingStillMatches(pathList, v, prefix, e) ==
    \E i \in 1..Len(pathList) :
       LET path == pathList[i]
       IN  /\ ~path.IsWithdraw
           /\ HasBinding(path)
           /\ e.RuleName = VrfExportName[rdToVrf[path.nlri.rd]]
           /\ BindingOf(path).LinuxVrf = v
           /\ IPPrefix(path.nlri) = prefix
           /\ matchesVrfExportFilters(path, BindingOf(path))

\* C33: reEvaluateAllRoutes never withdraws a route that was installed
\* through a per-VRF export binding while that binding still exists and still
\* matches the path in the RIB enumeration.
C33_ReEvalKeepsVrfExports ==
    last.op = "reEvaluateAllRoutes" =>
        \A pr \in PairsOf(last.before.exported) :
           LET e == last.before.exported[pr[1]][pr[2]]
           IN  BindingStillMatches(last.pathList, pr[1], pr[2], e) =>
                  /\ Has(exported, pr[1]) /\ Has(exported[pr[1]], pr[2])
                  /\ e.Route \in last.before.kernel => e.Route \in kernel


\* ------------------------------------------------------ errors of exportRoute
\* C34: whenever exportRoute returns an error, the exported map is what it
\* was before the call and no previously tracked kernel route has been
\* deleted, also when the call first detected a parameter change for an
\* entry that was already tracked.
C34_ErrorLeavesTracking ==
    (last.op = "exportRoute" /\ last.err # NoErr) =>
        /\ last.sameExported
        /\ ~CallOk(last.calls, "RouteDel")

\* the errors that are returned before the tracked entry is looked at leave
\* the map and the kernel as they were
C34_EarlyErrors ==
    (last.op = "exportRoute"
       /\ last.err \in {"no valid nexthop", "nexthop not reachable"}) =>
        /\ last.sameExported
        /\ last.sameKernel

\* exportRoute has deleted the old route of a changed entry, dropped the
\* entry and then failed to install the new route
C34_LostOnError ==
    /\ last.op = "exportRoute"
    /\ last.err = "failed to add route"
    /\ last.branch = "changed"
    /\ last.oldDeleted
    /\ ~last.sameExported


\* ------------------------------------------------------ dampener bookkeeping
\* C35 (dampener bookkeeping): in every reachable state there is, for each
\* prefix, at most one dampening timer that is armed or whose callback is
\* running, and pendingUpdates contains the prefix iff such a timer exists.
C35_DampenerBookkeeping ==
    \A key \in PendingKeys :
       /\ Cardinality(TimersOf(timers, key)) <= 1
       /\ Has(pendingUpdates, key) <=> TimersOf(timers, key) # {}

\* the callback of a fired timer has removed the pending entry of an update
\* that was scheduled after it fired: a timer is armed for a prefix that
\* pendingUpdates does not hold
C35_ArmedWithoutEntry ==
    \E t \in timers :
       /\ ~t.fired
       /\ ~Has(pendingUpdates, NlriString(t.path.nlri))


\* ------------------------------------------------ scopes without import rule
\* the configuration has an enabled import that targets the scope
HasImportRule(scope) ==
    \/ importCfg.global.Enabled /\ importCfg.global.Vrf = scope
    \/ \E i \in 1..Len(importCfg.vrfs) :
          importCfg.vrfs[i].Name = scope /\ importCfg.vrfs[i].Enabled

Advertises(scope) ==
    Has(advertisedPaths, scope) /\ DOMAIN advertisedPaths[scope] # {}

\* the next scan, with every lookup and submission succeeding, leaves
\* nothing of the scope advertised or in the RIB
NextScanWithdraws(scope) ==
    \A order \in ImportOrders :
        LET im == runImportAlone([ImSt("loop") EXCEPT !.pc = "runImport"], {}, order, 1)
        IN  /\ DOMAIN advertisedOf(im.advertisedPaths, scope) = {}
            /\ \A e \in im.rib : e.Vrf # scope

\* C36: when no import rule applies to a scope any more (global import
\* disabled, netlink-import of the VRF disabled, VRF deleted), the paths
\* recorded in advertisedPaths[scope] are eventually withdrawn from the RIB
\* and removed from advertisedPaths. A scan is a function of the
\* configuration, the addresses, advertisedPaths and the RIB, so the paths
\* are withdrawn eventually exactly when the next scan withdraws them: in
\* every state with such a scope the next scan leaves nothing of it.
C36_OrphanedScopeWithdrawn ==
    Quiet =>
        \A scope \in ImportScopes :
           (~HasImportRule(scope) /\ Advertises(scope)) => NextScanWithdraws(scope)

\* a scan has run over a configuration without rule for a scope and the
\* scope's paths are still advertised and still in the RIB
C36_StillAdvertised ==
    /\ last.op = "runImport"
    /\ \E scope \in ImportScopes :
          /\ ~HasImportRule(scope)
          /\ Advertises(scope)
          /\ \E e \in rib : e.Vrf = scope


\* ---------------------------------------------------------- import quiescence
\* the run of runImport that returned last followed a run of runImport
\* directly, both with every lookup and submission succeeding
ConsecutiveScans ==
    last.op = "runImport" /\ last.prevClean /\ ScansClean(last.scans)

\* C39 (import quiescence): when neither the interface addresses nor the
\* import configuration change between two consecutive runImport scans and
\* the first scan succeeded, the second scan submits no add and no withdraw,
\* for every configuration.
C39_ImportQuiescence ==
    ConsecutiveScans => \A i \in 1..Len(last.scans) : last.scans[i].calls = << >>

\* the same for the configurations in which every scope has one rule at most
C39_QuiescenceSingleRule ==
    (ConsecutiveScans /\ importCfg \in SingleRuleConfigs) =>
        \A i \in 1..Len(last.scans) : last.scans[i].calls = << >>

\* under a global import that targets VRF red, which has its own import
\* rule, the scan of the global rule has withdrawn what the scan of the
\* VRF's rule had added in the run before
C39_Flapping ==
    /\ last.op = "runImport" /\ ScansClean(last.scans)
    /\ importCfg.global.Vrf = "red"
    /\ Len(last.scans) = 2
    /\ SubmittedWithdraws(last.scans[1]) # {}
    /\ { p.Prefix : p \in SubmittedAdds(last.scans[2]) }
          = { p.Prefix : p \in SubmittedWithdraws(last.scans[1]) }


\* --------------------------------------------------- flush next to an install
\* what an operation that has returned is known by
View(o) == [op |-> o.op, path |-> o.path, rule |-> o.rule, calls |-> o.calls]

\* the operations that returned while the operation that returned last ran
OverlapViews == { View(last.overlap[i]) : i \in 1..Len(last.overlap) }

\* the pairs of an exportRoute and a flush that ran side by side and have
\* both returned
FlushBesideExport ==
    { p \in ({View(last)} \X OverlapViews) \cup (OverlapViews \X {View(last)}) :
        p[1].op = "exportRoute" /\ p[2].op = "flush" }

\* the routes an operation installed, and the routes it called RouteDel for
Replaced(calls) ==
    { calls[i].route : i \in { j \in 1..Len(calls) : calls[j].op = "RouteReplace" /\ calls[j].ok } }

DelIssued(calls) ==
    { calls[i].route : i \in { j \in 1..Len(calls) : calls[j].op = "RouteDel" } }

\* C37 (flush concurrent with installs): when exportRoute for a (vrf, prefix)
\* ran concurrently with flush and both have returned, the installed route
\* is tracked in exported or the engine has issued a RouteDel for it.
C37_FlushVsInstall ==
    \A p \in FlushBesideExport :
       \A r \in Replaced(p[1].calls) :
          \/ /\ Tracked(St0, p[1].rule.VrfName, PlainPrefix(p[1].path))
             /\ exported[p[1].rule.VrfName][PlainPrefix(p[1].path)].Route = r
          \/ r \in DelIssued(p[2].calls)

\* the installed route is in the kernel, untracked, and flush never called
\* RouteDel for it
C37_Leaked ==
    \E p \in FlushBesideExport :
       \E r \in Replaced(p[1].calls) :
          /\ r \in kernel
          /\ exported = EmptyMap
          /\ r \notin DelIssued(p[2].calls)


\* ------------------------------------------------------- overlapping scans
Scanning(g) == conc.scan[g].pc # "idle"

\* the scopes a run of runImport scans under a configuration
ScanScopes(icfg) ==
    (IF icfg.global.Enabled
     THEN { [Name |-> icfg.global.Vrf, InterfaceList |-> icfg.global.InterfaceList] }
     ELSE {})
    \cup (IF icfg.globalRib.IsNil THEN {}
          ELSE { [Name |-> v.Name, InterfaceList |-> v.InterfaceList] :
                   v \in { icfg.vrfs[i] : i \in { j \in 1..Len(icfg.vrfs) :
                              /\ icfg.vrfs[j].Enabled
                              /\ icfg.vrfs[j].Name \in icfg.globalRib.Vrfs } } })

\* the addresses of the interfaces of scope vrf give prefix k
OnInterface(vrf, k) ==
    \E s \in ScanScopes(importCfg) :
        /\ s.Name = vrf
        /\ k \in DOMAIN scanInterfaces(EmptyMap, s.InterfaceList, ifAddrs, {})

\* the paths the run of runImport that returned last submitted as new, and
\* the same of the runs that returned while it ran
AddedBeside == UNION { last.overlap[i].added : i \in 1..Len(last.overlap) }

\* C38 (import scans are mutually exclusive): a scan started by rescan()
\* never interleaves with a scan started by the ticker loop; two scans never
\* both submit the same add, and no withdraw is lost: when no scan runs, a
\* path in the RIB is advertised.
C38_ScansExclusive ==
    /\ ~(Scanning("loop") /\ Scanning("rescan"))
    /\ last.op = "runImport" => last.added \cap AddedBeside = {}
    /\ (\A g \in Scanners : ~Scanning(g)) =>
          \A e \in rib : e.Prefix \in DOMAIN advertisedOf(advertisedPaths, e.Vrf)

\* two runs of runImport that overlapped have submitted the same path as new
C38_DoubleAdd ==
    /\ last.op = "runImport"
    /\ last.added \cap AddedBeside # {}

\* both scans have returned; a path is in the RIB, its address is gone from
\* the interface and it is not advertised, so that no later scan withdraws it
C38_LostWithdraw ==
    /\ \A g \in Scanners : ~Scanning(g)
    /\ \E e \in rib : /\ e.Prefix \notin DOMAIN advertisedOf(advertisedPaths, e.Vrf)
                       /\ ~OnInterface(e.Vrf, e.Prefix)

\* a scan began with nothing advertised, found two addresses and submitted
\* one of them as new: the scan beside it stored both between the two reads
\* of line 184
C38_PartialAdd ==
    /\ last.op = "runImport"
    /\ \E i \in 1..Len(last.scans) :
          /\ DOMAIN last.scans[i].before = {}
          /\ Cardinality(DOMAIN last.scans[i].current) = 2
          /\ Cardinality(SubmittedAdds(last.scans[i])) = 1

\* the runtime has aborted the process at a concurrent access of the two
\* scans to n.advertisedPaths
C38_Aborted ==
    /\ shutdown.fatal
    /\ Scanning("loop") /\ Scanning("rescan")


\* --------------------------------------------------------- deadlock freedom
Active(t) == conc.thr[t] # ThreadIdle

\* goroutine t waits: its next lock operation cannot return in this state
Waiting(t) ==
    /\ Active(t)
    /\ LET m == NextInstr(t)[2]
       IN  \/ /\ NextInstr(t)[1] = "Lock"
              /\ t \in Mutex(m).pending
              /\ Mutex(m).writer # "" \/ Mutex(m).readers # {}
           \/ /\ NextInstr(t)[1] = "RLock"
              /\ Mutex(m).writer # "" \/ Mutex(m).pending # {}

\* the goroutines that hold mutex m
Holders(m) == (Mutex(m).readers \cup {Mutex(m).writer}) \ {""}

\* C40 (deadlock freedom of the export engine): under any interleaving of the
\* engine's operations no state is reached in which every active operation
\* waits for mu, dampenMu or statsMu; no goroutine waits for a lock it holds.
C40_DeadlockFree ==
    /\ (\E t \in Threads : Active(t)) => \E t \in Threads : Active(t) /\ ~Waiting(t)
    /\ \A t \in Threads : Waiting(t) => t \notin Holders(NextInstr(t)[2])

\* a chain of waiting goroutines: one waits for dampenMu, whose holder
\* waits for statsMu, whose holder is the only one that can go on
C40_Witness ==
    \E t1, t2, t3 \in Threads :
        /\ Mutex("dampenMu").writer = t1 /\ Waiting(t1) /\ NextInstr(t1)[2] = "statsMu"
        /\ Mutex("statsMu").writer = t2 /\ ~Waiting(t2)
        /\ Waiting(t3) /\ NextInstr(t3)[2] = "dampenMu"

====
